---- MODULE Spec2Model ----
(***************************************************************************)
(* The Breez SDK connection pool of liana-gui                              *)
(* (liana-gui/src/app/breez/connection_manager.rs, wallet.rs, error.rs).   *)
(*                                                                         *)
(* The pool is a HashMap<String, ConnectionEntry> behind one tokio RwLock. *)
(* Every lock section of the source contains no .await, so each section is *)
(* one atomic action here; the .await points between the sections (lock    *)
(* acquisition, the SDK connect, the SDK disconnect) are where the tasks   *)
(* interleave.                                                             *)
(*                                                                         *)
(* An Arc<BreezWalletManager> is named by the session it wraps: 0 is a     *)
(* placeholder manager (sdk = None), s > 0 the manager that wraps the      *)
(* LiquidSdk object s. Strong counts are computed from the places that     *)
(* hold a clone (pool entries, task locals, the callers); an object that   *)
(* nothing refers to is dropped, and its name is free for the next connect.*)
(***************************************************************************)
EXTENDS Integers, FiniteSets, Sequences, TLC

\* ------------------------------------------------------------------ bounds
\* Number of SDK sessions (LiquidSdk objects) that can be alive at a time.
MaxSessions == 2
\* Number of times the wall clock advances.
MaxTicks == 1

\* -------------------------------------------------------- program constants
\* stale_duration of cleanup_stale, in seconds.
STALE_SECS == 3600

Vaults == {"v1", "v2"}
Tasks == {"t1", "t2"}
Sessions == 1..MaxSessions
\* The message of the SDK when LiquidSdk::connect fails, and when disconnect fails.
ConnectMessage == "timeout"
DisconnectMessage == "not started"
\* The wall clock moves by a second more than the stale duration.
TickSteps == {STALE_SECS + 1}
\* What the caller does with a returned Arc<BreezWalletManager>.
ReturnModes == {"drop", "clone_content"}

VARIABLES
    connections,  \* BreezConnectionManager.connections: the HashMap, as a set of [key, entry]
    task,         \* per task: position in its operation and its locals
    uiSdk,        \* sessions whose Arc<LiquidSdk> some caller's manager copy still holds
    now,          \* SystemTime::now(), in seconds
    ticks         \* how often the clock has advanced

\* The pool again, with its reader-writer lock and the lock sections spelled out.
VARIABLES
    rwlock,       \* the tokio RwLock around the map: who holds it, who waits for it
    ltask         \* per task: the lock section or network call it is at, and its locals

\* BreezWalletManager values (a manager and its clones) around one LiquidSdk.
VARIABLES
    managers,     \* per manager: its sdk field, the call in flight, what its calls returned
    handles       \* number of Arc<LiquidSdk> clones that sdk() handed to callers

walletVars == <<managers, handles>>

\* The Lightning panel, the application that owns it, and their surroundings.
VARIABLES
    panel,        \* ActivePanel / ActiveSend: the fields their update handlers use
    app,          \* App: breez_manager (is it Some) and panels.current
    inflight,     \* iced Tasks started and not yet completed, in the order started
    disk,         \* the vault's Lightning wallet file
    generated     \* number of mnemonics generate_lightning_mnemonic has produced

panelVars == <<panel, app, inflight, disk, generated>>

\* The modules of app::breez that stand alone: storage, init, events, error_mapper.
VARIABLES
    storage,      \* the wallet files of the vaults as bytes, and the process environment
    cipher,       \* the last encrypt_chacha20 / decrypt_chacha20 round and its result
    initcall,     \* an initialization of a session: the path taken and how far it is
    events,       \* the provider's listener, the channel it feeds and its receiver
    report        \* the last error mapped for the user, and the strings it gave

breezVars == <<storage, cipher, initcall, events, report>>

vars == <<connections, task, uiSdk, now, ticks, rwlock, ltask, walletVars, panelVars,
          breezVars>>

\* What the operations of the pool, seen one lock section per step, leave alone.
notPool == <<rwlock, ltask, walletVars, panelVars, breezVars>>

\* ------------------------------------------------------- ConnectionState
NotInitialized == [tag |-> "NotInitialized", msg |-> ""]
Initializing == [tag |-> "Initializing", msg |-> ""]
Connected == [tag |-> "Connected", msg |-> ""]
Disconnected == [tag |-> "Disconnected", msg |-> ""]
Error(m) == [tag |-> "Error", msg |-> m]

\* ------------------------------------------------------------ BreezError
NoError == [kind |-> "", msg |-> ""]
BreezError(k, m) == [kind |-> k, msg |-> m]

\* impl fmt::Display for BreezError (the kinds the pool produces).
to_string(e) ==
    CASE e.kind = "NotInitialized" -> "Breez SDK not initialized"
      [] e.kind = "InvalidMnemonic" -> "Invalid mnemonic: " \o e.msg
      [] e.kind = "ConnectionFailed" -> "Failed to connect to Breez SDK: " \o e.msg
      [] e.kind = "Config" -> "Configuration error: " \o e.msg
      [] e.kind = "SdkError" -> "Breez SDK error: " \o e.msg
      [] OTHER -> e.msg

AlreadyInitializing == BreezError("Config", "Connection initialization already in progress")

\* ------------------------------------------------- Result<_, BreezError>
NoResult == [tag |-> "none", manager |-> -1, err |-> NoError]
Ok(m) == [tag |-> "Ok", manager |-> m, err |-> NoError]
Err(e) == [tag |-> "Err", manager |-> -1, err |-> e]

\* ------------------------------------------------------- ConnectionEntry
ConnectionEntry(m, s, k, t) ==
    [manager |-> m, state |-> s, wallet_checksum |-> k, last_used |-> t]

\* BreezWalletManager::new_placeholder: a manager without an SDK handle.
new_placeholder == 0

\* -------------------------------------------------------------- HashMap
contains_key(map, k) == \E p \in map : p.key = k

get(map, k) == (CHOOSE p \in map : p.key = k).entry

\* insert that leaves an older entry under the same key in place.
insert_no_replace(map, k, e) == map \cup {[key |-> k, entry |-> e]}

insert(map, k, e) == {p \in map : p.key # k} \cup {[key |-> k, entry |-> e]}

\* remove that takes nothing out.
remove_nothing(map, k) == map

remove(map, k) == {p \in map : p.key # k}

keys(map) == {p.key : p \in map}

len(map) == Cardinality(map)

\* connections.get_mut(k) followed by an assignment to the entry's state.
set_state(map, k, s) ==
    IF contains_key(map, k)
    THEN insert(map, k, [get(map, k) EXCEPT !.state = s])
    ELSE map

\* connections.get_mut(k) followed by entry.last_used = t.
set_last_used(map, k, t) ==
    IF contains_key(map, k)
    THEN insert(map, k, [get(map, k) EXCEPT !.last_used = t])
    ELSE map

\* ------------------------------------------------------------ task locals
\* pc: the .await point the task is at; a task at "done" is a caller that
\* holds what the call returned. manager: the Arc<BreezWalletManager> the task
\* holds (manager_clone / manager_arc / the returned handle). owned: the
\* LiquidSdk the task unwrapped and is disconnecting. checksums: what is left
\* of the Vec the loop of disconnect_all / cleanup_stale walks. errors: the
\* length of the errors Vec of disconnect_all.
\* connects, net_disconnects, net_failures, scanned and marked record what the
\* call did on the network, what its scan found and whether its Err arm found
\* an entry to mark, for the properties below.
IdleTask ==
    [pc |-> "idle", op |-> "", wallet_checksum |-> "", manager |-> -1,
     owned |-> -1, checksums |-> {},
     errors |-> 0, result |-> NoResult,
     connects |-> 0, net_disconnects |-> 0, net_failures |-> 0,
     scanned |-> {}, marked |-> FALSE]

\* Arc::strong_count of the manager wrapping session s.
strong_count(s) ==
    Cardinality({p \in connections : p.entry.manager = s})
    + Cardinality({t \in Tasks : task[t].manager = s})

\* The LiquidSdk objects something still refers to, and the names that are free.
referenced ==
    {p.entry.manager : p \in connections} \cup {task[t].manager : t \in Tasks}
    \cup {task[t].owned : t \in Tasks} \cup uiSdk

free_sessions == Sessions \ referenced

\* The caller's copies that still matter once the pool is map and the tasks
\* are tk: a copy of a manager that is neither in the pool nor in the hands of
\* a running call shares its LiquidSdk with nothing the pool can reach, so no
\* operation can tell whether it is still held; it is forgotten.
held_copies(copies, map, tk) ==
    copies \cap ({p.entry.manager : p \in map} \cup {tk[t].manager : t \in Tasks}
                 \cup {tk[t].owned : t \in Tasks})

\* Arc::try_unwrap(entry.manager).is_ok(): the task's reference is the only one.
\* A placeholder manager is never cloned out of the pool.
try_unwrap_manager(m) == m = new_placeholder \/ strong_count(m) = 1

\* Inside BreezWalletManager::disconnect, on the manager the task now owns:
\* self.sdk.take() is Some and Arc::try_unwrap(sdk) is Ok.
try_unwrap_sdk(m) == m # new_placeholder /\ m \notin uiSdk

\* read_branch without the Connected arm: every call initializes again.
read_branch_no_reuse(map, k) ==
    IF ~contains_key(map, k) THEN "initialize"
    ELSE CASE get(map, k).state = Initializing -> "already_initializing"
           [] OTHER -> "initialize"

\* read_branch without the Initializing arm: a second call initializes too.
read_branch_no_dedup(map, k) ==
    IF ~contains_key(map, k) THEN "initialize"
    ELSE CASE get(map, k).state = Connected -> "reuse"
           [] OTHER -> "initialize"

\* Which branch of the first lock section get_or_create takes.
read_branch(map, k) ==
    IF ~contains_key(map, k) THEN "initialize"
    ELSE CASE get(map, k).state = Connected -> "reuse"
           [] get(map, k).state = Initializing -> "already_initializing"
           [] OTHER -> "initialize"

\* get_state that reports a cube without an entry as Disconnected.
get_state_absent_disconnected(k) ==
    IF contains_key(connections, k) THEN get(connections, k).state ELSE Disconnected

\* self.get_state(k)
get_state(k) ==
    IF contains_key(connections, k) THEN get(connections, k).state ELSE NotInitialized

\* self.is_connected(k)
is_connected(k) == get_state(k) = Connected

\* self.connection_count()
connection_count == len(connections)

\* self.list_connections()
list_connections == {<<p.key, p.entry.state>> : p \in connections}

\* ---------------------------------------------------- BreezWalletManager
\* Number of calls of disconnect per manager, and of handles sdk() hands out.
MaxCalls == 2
MaxHandles == 1

\* The manager that initialize returned, and the places for its clones.
Managers == {"m1", "m2"}

\* A manager: whether it exists, its sdk field (Option<Arc<LiquidSdk>>: is it
\* Some), whether its disconnect awaits sdk.disconnect(), the number of its
\* disconnect calls and of the network disconnects they made, what the last
\* disconnect and the last sdk() returned.
NoManager ==
    [exists |-> FALSE, sdk |-> FALSE, pc |-> "idle", disconnects |-> 0,
     net_disconnects |-> 0, result |-> NoResult, sdk_result |-> NoResult]

\* BreezWalletManager::initialize returned Ok(Self { sdk: Some(sdk), .. }).
Initialized == [NoManager EXCEPT !.exists = TRUE, !.sdk = TRUE]

\* Option::take that leaves the value in place.
take_keeps(sdk) == sdk

\* self.sdk.take(): what is left in the field.
take(sdk) == FALSE

\* ------------------------------------------------- Lightning panel: data
\* Tasks in flight at once, and mnemonics generated in one run.
MaxInFlight == 2
MaxMnemonics == 2

\* Option<String>::None for the panel's error field.
None == "<None>"

\* The two panel implementations: ActivePanel (owned by App as panels.activate;
\* ActivatePanel is the same code with a wallet that is never None) and
\* ActiveSend (standalone, given its manager at construction).
PanelKinds == {"ActivePanel", "ActiveSend"}

\* Form inputs: what the user may type as destination and as amount.
Destinations == {"lnbc1", "lnbc2"}
Amounts == {"", "1000"}

\* The mnemonic of the vault's own signer, and one stored by an earlier run.
SignerMnemonic == "signer"
OldMnemonic == "old"

\* enum LightningWalletState; mnemonic is ShowingBackup's, "" otherwise.
LightningWalletState(tag, mnemonic) == [tag |-> tag, mnemonic |-> mnemonic]

\* LightningWalletState::ImportingWallet { mnemonic_input, error }
ImportingWallet(mnemonic_input, error) ==
    [tag |-> "ImportingWallet", mnemonic |-> "",
     mnemonic_input |-> mnemonic_input, error |-> error]

\* The words of a phrase that ConfirmImport accepts.
MnemonicWords == 24

\* What bip39 reports for a phrase whose checksum word is wrong.
ChecksumMessage == "the mnemonic has an invalid checksum"

\* Option<PrepareSendResponse>: None, or the quote the provider returned for a
\* prepare request with this destination and amount.
NoQuote == [some |-> FALSE, destination |-> "", amount |-> ""]
Quote(destination, amount) ==
    [some |-> TRUE, destination |-> destination, amount |-> amount]

\* iced::Task::perform: the future started, with what it captured.
AsyncTask(op, quote, mnemonic) == [op |-> op, quote |-> quote, mnemonic |-> mnemonic]

\* The wallet file of the vault: absent, unreadable, or holding a mnemonic.
NoFile == [file |-> "absent", mnemonic |-> ""]
CorruptFile == [file |-> "corrupt", mnemonic |-> ""]
StoredFile(mnemonic) == [file |-> "ok", mnemonic |-> mnemonic]

\* The panel before it is constructed.
NoPanel ==
    [kind |-> "none", wallet |-> FALSE, breez_manager |-> "None",
     lightning_wallet_state |-> LightningWalletState("NotCreated", ""),
     destination |-> "", amount |-> "", prepare_send_response |-> NoQuote,
     preparing |-> FALSE, sending |-> FALSE, error |-> None,
     generated_invoice |-> FALSE, balance |-> FALSE, stored |-> "none"]

\* ---------------------------------------------------------- storage: data
\* Longest byte sequence of which every one over the two extreme bytes is
\* tried as a message of the cipher.
MaxData == 3

\* The lengths of the key ([0u8; 32]) and of the nonce ([0u8; 12]).
KEY_LEN == 32
NONCE_LEN == 12

\* u8 ^ u8, bit by bit, and as the table of it.
RECURSIVE xor_bits(_, _)
xor_bits(a, b) ==
    IF a = 0 /\ b = 0 THEN 0 ELSE ((a + b) % 2) + 2 * xor_bits(a \div 2, b \div 2)

XorTable == [a \in 0..255 |-> [b \in 0..255 |-> xor_bits(a, b)]]

xor(a, b) == XorTable[a][b]

\* n bytes: 0, step, 2 * step, ... as u8.
Pattern(n, step) == [i \in 1..n |-> ((i - 1) * step) % 256]

\* Every byte sequence over the bytes of length at most n.
RECURSIVE Upto(_, _)
Upto(bytes, n) ==
    IF n = 0 THEN {<<>>}
    ELSE Upto(bytes, n - 1)
           \cup {Append(s, b) : s \in {t \in Upto(bytes, n - 1) : Len(t) = n - 1}, b \in bytes}

\* Messages of the cipher: the short ones, one longer than the key, and one
\* longer than the range of the u8 index.
Messages == Upto({0, 255}, MaxData) \cup {Pattern(KEY_LEN + 2, 37), Pattern(258, 1)}

\* Keys: the one of test_encrypt_decrypt, zeros, and one of distinct bytes.
Keys == {Pattern(KEY_LEN, 0), [i \in 1..KEY_LEN |-> 42], Pattern(KEY_LEN, 7)}

\* Nonces that rand::thread_rng().fill_bytes may give.
Nonces == {Pattern(NONCE_LEN, 0), [i \in 1..NONCE_LEN |-> 255], Pattern(NONCE_LEN, 21)}

NoCipher == [data |-> <<>>, key |-> <<>>, encrypted |-> <<>>, decrypted |-> <<>>]

\* The process environment: COMPUTERNAME and HOSTNAME, None when not set.
Environments ==
    {[COMPUTERNAME |-> None, HOSTNAME |-> "hostA"],
     [COMPUTERNAME |-> None, HOSTNAME |-> None],
     [COMPUTERNAME |-> "hostB", HOSTNAME |-> "hostA"]}

\* Mnemonics as the bytes of their &str: "a é", and the first 14 bytes of
\* "abandon abandon ...", which are more than a nonce.
Mnemonics ==
    {<<97, 32, 195, 169>>,
     [i \in 1..(NONCE_LEN + 2) |-> <<97, 98, 97, 110, 100, 111, 110, 32>>[((i - 1) % 8) + 1]]}

\* A wallet file: whether the path exists, and its bytes.
Absent == [exists |-> FALSE, data |-> <<>>]
File(data) == [exists |-> TRUE, data |-> data]

\* What is known of a vault's file: nothing, or the mnemonic that the last
\* store, which returned Ok, wrote, and the environment it ran in.
NotStored == [some |-> FALSE, mnemonic |-> <<>>, env |-> [COMPUTERNAME |-> None, HOSTNAME |-> None]]
Stored(mnemonic, env) == [some |-> TRUE, mnemonic |-> mnemonic, env |-> env]

\* Result<String, BreezError> of load_lightning_mnemonic; None before a call.
NoLoad == [vault |-> None, tag |-> "", mnemonic |-> <<>>, err |-> NoError]

NoStorage ==
    [files |-> [v \in Vaults |-> Absent], stored |-> [v \in Vaults |-> NotStored],
     env |-> [COMPUTERNAME |-> None, HOSTNAME |-> "hostA"], loaded |-> NoLoad]

\* ------------------------------------- init, events, error_mapper: data
\* BREEZ_API_KEY in the environment: not set, empty, set.
ApiKeys == {None, "", "key"}

\* bitcoin::Network
Networks == {"Bitcoin", "Testnet", "Testnet4", "Signet", "Regtest"}

\* Who initializes a session: initialize_breez_sdk (App::new, set_current_panel,
\* ActivatePanel), BreezConnectionManager::get_or_create, and the tasks of
\* ActivePanel, the last two by BreezWalletManager::initialize directly.
InitPaths == {"initialize_breez_sdk", "get_or_create", "ActivePanel"}

\* breez_sdk_liquid Config, as far as BreezConfig::new sets it.
NoConfig == [network |-> "", breez_api_key |-> None]

\* No initialization is running.
NoCall ==
    [pc |-> "idle", path |-> "", env_key |-> None, network |-> "", config |-> NoConfig,
     connects |-> 0, result |-> [tag |-> "none", err |-> NoError]]
\* Provider events emitted in one run.
MaxEvents == 3

\* SdkEvent: the variants that handle_sdk_event names, and one it does not
\* ("DataSynced"); details.destination is None or an invoice.
SdkEventKinds ==
    {"PaymentSucceeded", "PaymentFailed", "PaymentPending", "Synced",
     "PaymentRefundable", "PaymentRefunded", "PaymentRefundPending",
     "PaymentWaitingConfirmation", "PaymentWaitingFeeAcceptance", "DataSynced"}
SdkEvent(kind, destination) == [kind |-> kind, destination |-> destination, amount_sat |-> 1000]

\* No listener is registered: no channel, nothing sent, nothing received.
NoListener == [registered |-> FALSE, channel |-> <<>>, sent |-> <<>>, received |-> <<>>,
               emitted |-> 0]
\* The messages a BreezError carries: the four words the mapper looks for, a
\* capitalised one it does not, the empty message, and two ordinary ones.
ErrorMessages ==
    {"", "provider error", "request timeout", "connection timed out", "node offline",
     "host unreachable", "Timeout", "offline after timed out"}

\* enum BreezError: the variants with a message, the two without, and
\* AmountOutOfLimits { min, max }.
MessageKinds ==
    {"InvalidMnemonic", "DerivationFailed", "InvalidPath", "ConnectionFailed", "Config",
     "PrepareFailed", "SendFailed", "ReceiveFailed", "LimitsFetchFailed",
     "BalanceFetchFailed", "EventListenerFailed", "PaymentListFailed",
     "PaymentFetchFailed", "SdkError"}
AmountOutOfLimits(min, max) == [kind |-> "AmountOutOfLimits", min |-> min, max |-> max]
BreezErrors ==
    {BreezError(k, m) : k \in MessageKinds, m \in ErrorMessages}
       \cup {[kind |-> "NotInitialized"], [kind |-> "InvalidDestination"]}
       \cup {AmountOutOfLimits(min, max) : min \in {0, 1000}, max \in {0, 25000000}}

\* No error has been mapped yet.
NoReport == [done |-> FALSE]

\* ------------------------------------------------------- tokio::sync::RwLock
\* The tasks of the lock-level view.
LockTasks == {"a", "b"}

\* The cubes of the lock-level view.
LockVaults == {"v1"}

\* The lock: the tasks holding a read guard, the task holding the write guard,
\* and the FIFO queue of the tasks whose read() / write() future is pending.
Unlocked == [readers |-> {}, writer |-> "none", waiters |-> <<>>]

\* Whether a guard of the mode can be handed out next to the guards held.
compatible(l, mode) ==
    IF mode = "read" THEN l.writer = "none"
    ELSE l.writer = "none" /\ l.readers = {}

grant(l, t, mode) ==
    IF mode = "read" THEN [l EXCEPT !.readers = @ \cup {t}]
    ELSE [l EXCEPT !.writer = t]

\* self.connections.read().await / .write().await is called by t: the guard is
\* handed out at once if nobody is queued and the mode is compatible, else t
\* queues behind the earlier waiters (the lock is fair).
request(l, t, mode) ==
    IF l.waiters = <<>> /\ compatible(l, mode)
    THEN grant(l, t, mode)
    ELSE [l EXCEPT !.waiters = Append(@, [task |-> t, mode |-> mode])]

\* Hand the lock to the waiters at the head of the queue, as far as compatible.
RECURSIVE wake(_)
wake(l) ==
    IF l.waiters # <<>> /\ compatible(l, Head(l.waiters).mode)
    THEN wake(grant([l EXCEPT !.waiters = Tail(@)],
                    Head(l.waiters).task, Head(l.waiters).mode))
    ELSE l

\* drop that leaves the guard in place.
unlock_kept(l, t) == l

\* The guard of t is dropped (end of the block, drop(connections), return).
unlock(l, t) ==
    wake([l EXCEPT !.readers = @ \ {t},
                   !.writer = IF @ = t THEN "none" ELSE @])

\* The Connected arm asking for the write lock with its read guard still held.
upgrade_holding_read(l, t) == request(l, t, "write")

\* The Connected arm of get_or_create: drop(connections), then write().await.
upgrade(l, t) == request(unlock(l, t), t, "write")

holds(l, t) == t \in l.readers \/ l.writer = t

waits(l, t) == \E i \in 1..Len(l.waiters) : l.waiters[i].task = t

\* What get_state, is_connected, list_connections and connection_count returned.
NoValue == [state |-> NotInitialized, flag |-> FALSE, list |-> {}, count |-> 0]

\* The locals of a task of the lock-level view.
IdleLockTask ==
    [pc |-> "idle", op |-> "", wallet_checksum |-> "", manager |-> -1,
     owned |-> -1, now |-> 0, checksums |-> {}, errors |-> 0,
     result |-> NoResult, value |-> NoValue]

Init ==
    /\ connections = {}
    /\ task = [t \in Tasks |-> IdleTask]
    /\ uiSdk = {}
    /\ now = 0
    /\ ticks = 0
    /\ rwlock = Unlocked
    /\ ltask = [t \in LockTasks |-> IdleLockTask]
    /\ managers = [m \in Managers |-> IF m = "m1" THEN Initialized ELSE NoManager]
    /\ handles = 0
    /\ panel = NoPanel
    /\ app = [breez_manager |-> FALSE, current |-> "Home"]
    /\ inflight = <<>>
    /\ disk = NoFile
    /\ generated = 0
    /\ storage = NoStorage
    /\ cipher = NoCipher
    /\ initcall = NoCall
    /\ events = NoListener
    /\ report = NoReport

\* ------------------------------------------------------------ get_or_create
\* The stale test without the state filter.
is_stale_any_state(e, t) ==
    /\ t >= e.last_used
    /\ t - e.last_used > STALE_SECS

\* The stale test of cleanup_stale's filter for one entry.
is_stale(e, t) ==
    /\ e.state.tag \in {"Disconnected", "Error"}
    /\ t >= e.last_used            \* duration_since is Ok
    /\ t - e.last_used > STALE_SECS

\* stale_checksums of cleanup_stale.
stale_checksums(map, t) == {p.key : p \in {q \in map : is_stale(q.entry, t)}}

\* The Err arm without its write section.
mark_error_skipped(map, k, e) == map

\* "Mark as error" that marks every entry of the pool.
mark_error_everywhere(map, k, e) ==
    {[key |-> p.key, entry |-> [p.entry EXCEPT !.state = Error(to_string(e))]] : p \in map}

\* "Mark as error" that creates the entry when there is none.
mark_error_insert(map, k, e) ==
    IF contains_key(map, k)
    THEN set_state(map, k, Error(to_string(e)))
    ELSE insert(map, k, ConnectionEntry(new_placeholder, Error(to_string(e)), k, 0))

\* The write section after a failed initialize ("Mark as error").
mark_error(map, k, e) == set_state(map, k, Error(to_string(e)))

\* "Update to connected state" that keeps an entry that is Connected already.
mark_connected_first_wins(map, k, m, t) ==
    IF contains_key(map, k) /\ get(map, k).state = Connected
    THEN map
    ELSE insert(map, k, ConnectionEntry(m, Connected, k, t))

\* "Mark as connected" that sets the state of the entry found, placeholder or not.
mark_connected_in_place(map, k, m, t) == set_state(map, k, Connected)

\* The write section after a successful initialize ("Update to connected state").
mark_connected(map, k, m, t) == insert(map, k, ConnectionEntry(m, Connected, k, t))

\* "Mark as initializing" that inserts nothing.
mark_initializing_skipped(map, k, t) == map

\* The write section before initialize ("Mark as initializing").
mark_initializing(map, k, t) ==
    insert(map, k, ConnectionEntry(new_placeholder, Initializing, k, t))

\* First lock section (read lock): look the cube up and branch on its state.
GetOrCreate(t, v) ==
    /\ task[t].pc = "idle"
    /\ LET b == read_branch(connections, v)
           r == [IdleTask EXCEPT !.op = "get_or_create", !.wallet_checksum = v]
       IN  CASE b = "reuse" ->
                  task' = [task EXCEPT ![t] = [r EXCEPT !.pc = "goc_touch",
                                    !.manager = get(connections, v).manager]]
             [] b = "already_initializing" ->
                  task' = [task EXCEPT ![t] = [r EXCEPT !.pc = "done",
                                    !.result = Err(AlreadyInitializing)]]
             [] OTHER ->
                  task' = [task EXCEPT ![t] = [r EXCEPT !.pc = "goc_mark"]]
    /\ UNCHANGED <<connections, now, ticks>>
    /\ uiSdk' = held_copies(uiSdk, connections', task')
    /\ UNCHANGED notPool

\* Reuse branch, second lock section (write lock): refresh last_used, return the clone.
GocTouch(t) ==
    /\ task[t].pc = "goc_touch"
    /\ connections' = set_last_used(connections, task[t].wallet_checksum, now)
    /\ task' = [task EXCEPT ![t].pc = "done", ![t].result = Ok(task[t].manager)]
    /\ uiSdk' = held_copies(uiSdk, connections', task')
    /\ UNCHANGED <<now, ticks>>
    /\ UNCHANGED notPool

\* Write section inserting the Initializing placeholder.
GocMark(t) ==
    /\ task[t].pc = "goc_mark"
    /\ connections' = mark_initializing(connections, task[t].wallet_checksum, now)
    /\ task' = [task EXCEPT ![t].pc = "goc_initialize"]
    /\ uiSdk' = held_copies(uiSdk, connections', task')
    /\ UNCHANGED <<now, ticks>>
    /\ UNCHANGED notPool

\* BreezWalletManager::initialize returns Err (LiquidSdk::connect failed), the
\* Err arm runs its write section ("Mark as error") and returns Err(e).
GocInitializeFailed(t) ==
    /\ task[t].pc = "goc_initialize"
    /\ LET e == BreezError("ConnectionFailed", ConnectMessage)
       IN  /\ connections' = mark_error(connections, task[t].wallet_checksum, e)
           /\ task' = [task EXCEPT ![t].pc = "done",
                          ![t].connects = @ + 1, ![t].result = Err(e),
                          ![t].marked = contains_key(connections,
                                                     task[t].wallet_checksum)]
    /\ uiSdk' = held_copies(uiSdk, connections', task')
    /\ UNCHANGED <<now, ticks>>
    /\ UNCHANGED notPool

\* BreezWalletManager::initialize returns Ok(manager): manager_arc wraps it, the
\* write section inserts the Connected entry, Ok(manager_arc) is returned.
GocInitializeOk(t) ==
    /\ task[t].pc = "goc_initialize"
    /\ free_sessions # {}
    /\ LET s == CHOOSE x \in free_sessions : \A y \in free_sessions : x <= y
       IN  /\ connections' = mark_connected(connections, task[t].wallet_checksum, s, now)
           /\ task' = [task EXCEPT ![t].pc = "done",
                          ![t].connects = @ + 1, ![t].manager = s,
                          ![t].result = Ok(s)]
    /\ uiSdk' = held_copies(uiSdk, connections', task')
    /\ UNCHANGED <<now, ticks>>
    /\ UNCHANGED notPool

\* --------------------------------------------------------------- disconnect
\* disconnect_return where the loop of disconnect_all returns the first error.
disconnect_return_abort(r, res) ==
    LET q == [r EXCEPT !.owned = -1]
    IN  CASE r.op = "disconnect_all" /\ res.tag = "Ok" ->
               [q EXCEPT !.pc = "dall_loop", !.wallet_checksum = ""]
          [] r.op = "cleanup_stale" /\ res.tag = "Ok" ->
               [q EXCEPT !.pc = "cs_loop", !.wallet_checksum = ""]
          [] OTHER -> [q EXCEPT !.pc = "done", !.result = res]

\* Where a disconnect that returns res leaves the task whose record is r: the
\* caller of disconnect is the user, the loop of disconnect_all (which counts
\* the error and goes on) or the loop of cleanup_stale (which returns it: `?`).
disconnect_return(r, res) ==
    LET q == [r EXCEPT !.owned = -1]
    IN  CASE r.op = "disconnect_all" ->
               [q EXCEPT !.pc = "dall_loop", !.wallet_checksum = "",
                         !.errors = IF res.tag = "Err" THEN @ + 1 ELSE @]
          [] r.op = "cleanup_stale" ->
               IF res.tag = "Err"
               THEN [q EXCEPT !.pc = "done", !.result = res]
               ELSE [q EXCEPT !.pc = "cs_loop", !.wallet_checksum = ""]
          [] OTHER -> [q EXCEPT !.pc = "done", !.result = res]

\* The map once disconnect has found other references to the manager of the
\* entry e it took out under key k: entry.state = Disconnected is assigned to
\* the local entry, which is dropped at the end of the function.
after_shared_disconnect(map, k, e) == map

\* disconnect(c) up to its first .await inside BreezWalletManager::disconnect:
\* the write section removes the entry; Arc::try_unwrap(entry.manager) and, in
\* the manager, Arc::try_unwrap(sdk) decide whether sdk.disconnect() is called.
\* Nothing can take a new reference to the manager of a removed entry, so the
\* two try_unwrap see the counts of the moment of the removal.
enter_disconnect(t, r, c) ==
    LET map == remove(connections, c)
        e == get(connections, c)
        q == [r EXCEPT !.wallet_checksum = c]
    IN  IF ~contains_key(connections, c)
        THEN /\ connections' = map
             /\ task' = [task EXCEPT ![t] = disconnect_return(q, Ok(-1))]
        ELSE IF ~try_unwrap_manager(e.manager)
        THEN /\ connections' = after_shared_disconnect(map, c, e)
             /\ task' = [task EXCEPT ![t] = disconnect_return(q, Ok(-1))]
        ELSE IF ~try_unwrap_sdk(e.manager)
        THEN /\ connections' = map
             /\ task' = [task EXCEPT ![t] = disconnect_return(q, Ok(-1))]
        ELSE /\ connections' = map
             /\ task' = [task EXCEPT ![t] = [q EXCEPT !.pc = "disc_net",
                                                       !.owned = e.manager]]

Disconnect(t, v) ==
    /\ task[t].pc = "idle"
    /\ enter_disconnect(t, [IdleTask EXCEPT !.op = "disconnect"], v)
    /\ uiSdk' = held_copies(uiSdk, connections', task')
    /\ UNCHANGED <<now, ticks>>
    /\ UNCHANGED notPool

\* sdk.disconnect().await returns.
DiscNetOk(t) ==
    /\ task[t].pc = "disc_net"
    /\ task' = [task EXCEPT ![t] = disconnect_return(
                    [task[t] EXCEPT !.net_disconnects = @ + 1], Ok(-1))]
    /\ UNCHANGED <<connections, now, ticks>>
    /\ uiSdk' = held_copies(uiSdk, connections', task')
    /\ UNCHANGED notPool

DiscNetFailed(t) ==
    /\ task[t].pc = "disc_net"
    /\ task' = [task EXCEPT ![t] = disconnect_return(
                    [task[t] EXCEPT !.net_disconnects = @ + 1, !.net_failures = @ + 1],
                    Err(BreezError("SdkError", DisconnectMessage)))]
    /\ UNCHANGED <<connections, now, ticks>>
    /\ uiSdk' = held_copies(uiSdk, connections', task')
    /\ UNCHANGED notPool

\* ----------------------------------------------------------- disconnect_all
\* Read section: collect the keys.
DisconnectAll(t) ==
    /\ task[t].pc = "idle"
    /\ task' = [task EXCEPT ![t] = [IdleTask EXCEPT !.op = "disconnect_all",
                   !.pc = "dall_loop", !.checksums = keys(connections),
                   !.scanned = keys(connections)]]
    /\ UNCHANGED <<connections, now, ticks>>
    /\ uiSdk' = held_copies(uiSdk, connections', task')
    /\ UNCHANGED notPool

\* The value disconnect_all returns once its loop is over.
disconnect_all_result(errors) ==
    IF errors # 0
    THEN Err(BreezError("SdkError",
             "Failed to disconnect " \o ToString(errors) \o " connections"))
    ELSE Ok(-1)

\* One turn of the for loop: the next checksum (a HashMap's key order is any
\* order) enters disconnect; after the last one the errors decide the result.
DallLoop(t) ==
    /\ task[t].pc = "dall_loop"
    /\ IF task[t].checksums = {}
       THEN /\ task' = [task EXCEPT ![t].pc = "done",
                           ![t].result = disconnect_all_result(task[t].errors)]
            /\ UNCHANGED connections
       ELSE \E c \in task[t].checksums :
              enter_disconnect(t, [task[t] EXCEPT !.checksums = @ \ {c}], c)
    /\ uiSdk' = held_copies(uiSdk, connections', task')
    /\ UNCHANGED <<now, ticks>>
    /\ UNCHANGED notPool

\* ------------------------------------------------------------ cleanup_stale
\* now is read, then the read section filters the stale entries.
CleanupStale(t) ==
    /\ task[t].pc = "idle"
    /\ task' = [task EXCEPT ![t] = [IdleTask EXCEPT !.op = "cleanup_stale",
                   !.pc = "cs_loop", !.checksums = stale_checksums(connections, now),
                   !.scanned = stale_checksums(connections, now)]]
    /\ UNCHANGED <<connections, now, ticks>>
    /\ uiSdk' = held_copies(uiSdk, connections', task')
    /\ UNCHANGED notPool

CsLoop(t) ==
    /\ task[t].pc = "cs_loop"
    /\ IF task[t].checksums = {}
       THEN /\ task' = [task EXCEPT ![t].pc = "done", ![t].result = Ok(-1)]
            /\ UNCHANGED connections
       ELSE \E c \in task[t].checksums :
              enter_disconnect(t, [task[t] EXCEPT !.checksums = @ \ {c}], c)
    /\ uiSdk' = held_copies(uiSdk, connections', task')
    /\ UNCHANGED <<now, ticks>>
    /\ UNCHANGED notPool

\* ------------------------------------------------------------- environment
\* The caller lets go of what the call returned: it drops the handle, or it
\* keeps a copy of the manager (helpers.rs: breez_manager.as_ref().clone(), a
\* second owner of the Arc<LiquidSdk>) and drops the Arc.
Return(t, mode) ==
    /\ task[t].pc = "done"
    /\ task' = [task EXCEPT ![t] = IdleTask]
    /\ LET m == task[t].result.manager
       IN  IF task[t].result.tag = "Ok" /\ m > 0
           THEN uiSdk' = held_copies(IF mode = "clone_content" THEN uiSdk \cup {m}
                                     ELSE uiSdk, connections, task')
           ELSE /\ mode = "drop"
                /\ UNCHANGED uiSdk
    /\ UNCHANGED <<connections, now, ticks>>
    /\ UNCHANGED notPool

\* A caller drops its copy of the manager (and with it the Arc<LiquidSdk>).
DropSdk(s) ==
    /\ s \in uiSdk
    /\ uiSdk' = uiSdk \ {s}
    /\ UNCHANGED <<connections, task, now, ticks>>
    /\ UNCHANGED notPool

\* The wall clock advances.
Tick(d) ==
    /\ ticks < MaxTicks
    /\ ticks' = ticks + 1
    /\ now' = now + d
    /\ UNCHANGED <<connections, task, uiSdk>>
    /\ UNCHANGED notPool

Step(t) ==
    \/ \E v \in Vaults : GetOrCreate(t, v)
    \/ GocTouch(t)
    \/ GocMark(t)
    \/ GocInitializeFailed(t)
    \/ GocInitializeOk(t)
    \/ \E v \in Vaults : Disconnect(t, v)
    \/ DiscNetOk(t)
    \/ DiscNetFailed(t)
    \/ DisconnectAll(t)
    \/ DallLoop(t)
    \/ CleanupStale(t)
    \/ CsLoop(t)
    \/ \E mode \in ReturnModes : Return(t, mode)

Env ==
    \/ \E s \in Sessions : DropSdk(s)
    \/ \E d \in TickSteps : Tick(d)

Next == (\E t \in Tasks : Step(t)) \/ Env

Spec == Init /\ [][Next]_vars

\* The steps of a call that has started: its lock sections and the returns of
\* its calls to the provider.
Continues(t) ==
    \/ GocTouch(t) \/ GocMark(t) \/ GocInitializeFailed(t) \/ GocInitializeOk(t)
    \/ DiscNetOk(t) \/ DiscNetFailed(t) \/ DallLoop(t) \/ CsLoop(t)

\* Every call that has started goes on: the runtime polls a future that can
\* make progress, and every call to the provider returns. Nothing obliges a
\* caller to start a call or to let go of a result.
FairSpec == Spec /\ \A t \in Tasks : WF_vars(Continues(t))

\* One caller at a time: every call runs to its return before the next starts.
NextSolo == Step("t1") \/ Env

SpecSolo == Init /\ [][NextSolo]_vars

\* ======================================================================
\* The pool with its lock: one step per lock request, lock section and
\* network return. A call's read() / write() is requested in the step that
\* reaches that .await; the section runs, and its guard is dropped, in the
\* step of the task once it holds the lock.
\* ======================================================================
\* What these steps leave alone.
notLock == <<task, uiSdk, walletVars, panelVars, breezVars>>

\* The introspection calls.
Introspections == {"get_state", "is_connected", "list_connections", "connection_count"}

\* The task starts get_or_create(v, m): connections.read().await.
LGetOrCreate(t, v) ==
    /\ ltask[t].pc = "idle"
    /\ ltask' = [ltask EXCEPT ![t] = [IdleLockTask EXCEPT !.op = "get_or_create",
                     !.wallet_checksum = v, !.pc = "goc_read"]]
    /\ rwlock' = request(rwlock, t, "read")
    /\ UNCHANGED <<connections, now, ticks>>
    /\ UNCHANGED notLock

\* The read section of get_or_create and what follows it up to the next .await.
LGocRead(t) ==
    /\ ltask[t].pc = "goc_read"
    /\ holds(rwlock, t)
    /\ LET v == ltask[t].wallet_checksum
           b == read_branch(connections, v)
       IN  CASE b = "reuse" ->
                  /\ ltask' = [ltask EXCEPT ![t].pc = "goc_touch",
                                  ![t].manager = get(connections, v).manager]
                  /\ rwlock' = upgrade(rwlock, t)
             [] b = "already_initializing" ->
                  /\ ltask' = [ltask EXCEPT ![t].pc = "done",
                                  ![t].result = Err(AlreadyInitializing)]
                  /\ rwlock' = unlock(rwlock, t)
             [] OTHER ->
                  /\ ltask' = [ltask EXCEPT ![t].pc = "goc_mark"]
                  /\ rwlock' = request(unlock(rwlock, t), t, "write")
    /\ UNCHANGED <<connections, now, ticks>>
    /\ UNCHANGED notLock

\* Connected arm, write section: refresh last_used; return Ok(manager_clone).
LGocTouch(t) ==
    /\ ltask[t].pc = "goc_touch"
    /\ holds(rwlock, t)
    /\ connections' = set_last_used(connections, ltask[t].wallet_checksum, now)
    /\ rwlock' = unlock(rwlock, t)
    /\ ltask' = [ltask EXCEPT ![t].pc = "done", ![t].result = Ok(ltask[t].manager)]
    /\ UNCHANGED <<now, ticks>>
    /\ UNCHANGED notLock

\* "Mark as initializing" section; then BreezWalletManager::initialize is awaited.
LGocMark(t) ==
    /\ ltask[t].pc = "goc_mark"
    /\ holds(rwlock, t)
    /\ connections' = mark_initializing(connections, ltask[t].wallet_checksum, now)
    /\ rwlock' = unlock(rwlock, t)
    /\ ltask' = [ltask EXCEPT ![t].pc = "goc_initialize"]
    /\ UNCHANGED <<now, ticks>>
    /\ UNCHANGED notLock

\* initialize returns Ok(manager): manager_arc is made, write().await.
LGocInitializeOk(t) ==
    /\ ltask[t].pc = "goc_initialize"
    /\ ltask' = [ltask EXCEPT ![t].pc = "goc_connected", ![t].manager = 1]
    /\ rwlock' = request(rwlock, t, "write")
    /\ UNCHANGED <<connections, now, ticks>>
    /\ UNCHANGED notLock

\* initialize returns Err(e): the Err arm, write().await.
LGocInitializeFailed(t) ==
    /\ ltask[t].pc = "goc_initialize"
    /\ ltask' = [ltask EXCEPT ![t].pc = "goc_error",
                    ![t].result = Err(BreezError("ConnectionFailed", ConnectMessage))]
    /\ rwlock' = request(rwlock, t, "write")
    /\ UNCHANGED <<connections, now, ticks>>
    /\ UNCHANGED notLock

\* "Update to connected state" section; return Ok(manager_arc).
LGocConnected(t) ==
    /\ ltask[t].pc = "goc_connected"
    /\ holds(rwlock, t)
    /\ connections' = mark_connected(connections, ltask[t].wallet_checksum,
                                     ltask[t].manager, now)
    /\ rwlock' = unlock(rwlock, t)
    /\ ltask' = [ltask EXCEPT ![t].pc = "done", ![t].result = Ok(ltask[t].manager)]
    /\ UNCHANGED <<now, ticks>>
    /\ UNCHANGED notLock

\* "Mark as error" section; return Err(e).
LGocError(t) ==
    /\ ltask[t].pc = "goc_error"
    /\ holds(rwlock, t)
    /\ connections' = mark_error(connections, ltask[t].wallet_checksum,
                                 ltask[t].result.err)
    /\ rwlock' = unlock(rwlock, t)
    /\ ltask' = [ltask EXCEPT ![t].pc = "done"]
    /\ UNCHANGED <<now, ticks>>
    /\ UNCHANGED notLock

\* disconnect(c) is entered by the task whose record is r: connections.write().await.
lock_disconnect(t, r, c) ==
    /\ ltask' = [ltask EXCEPT ![t] = [r EXCEPT !.wallet_checksum = c,
                                               !.pc = "disc_remove"]]
    /\ rwlock' = request(rwlock, t, "write")

LDisconnect(t, v) ==
    /\ ltask[t].pc = "idle"
    /\ lock_disconnect(t, [IdleLockTask EXCEPT !.op = "disconnect"], v)
    /\ UNCHANGED <<connections, now, ticks>>
    /\ UNCHANGED notLock

\* The write section of disconnect (remove), and the two try_unwrap after it.
\* Whether the callers still hold clones of the manager or of its SDK handle is
\* theirs to decide: a real manager is the task's alone (sole) or not.
LDiscRemove(t) ==
    /\ ltask[t].pc = "disc_remove"
    /\ holds(rwlock, t)
    /\ rwlock' = unlock(rwlock, t)
    /\ LET c == ltask[t].wallet_checksum
           e == get(connections, c)
       IN  IF ~contains_key(connections, c)
           THEN /\ connections' = remove(connections, c)
                /\ ltask' = [ltask EXCEPT ![t] = disconnect_return(ltask[t], Ok(-1))]
           ELSE \E sole \in BOOLEAN :
                  IF sole /\ e.manager # new_placeholder
                  THEN /\ connections' = remove(connections, c)
                       /\ ltask' = [ltask EXCEPT ![t].pc = "disc_net",
                                                 ![t].owned = e.manager]
                  ELSE /\ connections' =
                            after_shared_disconnect(remove(connections, c), c, e)
                       /\ ltask' = [ltask EXCEPT ![t] =
                                       disconnect_return(ltask[t], Ok(-1))]
    /\ UNCHANGED <<now, ticks>>
    /\ UNCHANGED notLock

\* sdk.disconnect().await returns.
LDiscNetOk(t) ==
    /\ ltask[t].pc = "disc_net"
    /\ ltask' = [ltask EXCEPT ![t] = disconnect_return(ltask[t], Ok(-1))]
    /\ UNCHANGED <<connections, rwlock, now, ticks>>
    /\ UNCHANGED notLock

LDiscNetFailed(t) ==
    /\ ltask[t].pc = "disc_net"
    /\ ltask' = [ltask EXCEPT ![t] = disconnect_return(ltask[t],
                       Err(BreezError("SdkError", DisconnectMessage)))]
    /\ UNCHANGED <<connections, rwlock, now, ticks>>
    /\ UNCHANGED notLock

\* disconnect_all: connections.read().await.
LDisconnectAll(t) ==
    /\ ltask[t].pc = "idle"
    /\ ltask' = [ltask EXCEPT ![t] = [IdleLockTask EXCEPT !.op = "disconnect_all",
                                                          !.pc = "dall_read"]]
    /\ rwlock' = request(rwlock, t, "read")
    /\ UNCHANGED <<connections, now, ticks>>
    /\ UNCHANGED notLock

\* Its read section: collect the keys.
LDallRead(t) ==
    /\ ltask[t].pc = "dall_read"
    /\ holds(rwlock, t)
    /\ ltask' = [ltask EXCEPT ![t].pc = "dall_loop", ![t].checksums = keys(connections)]
    /\ rwlock' = unlock(rwlock, t)
    /\ UNCHANGED <<connections, now, ticks>>
    /\ UNCHANGED notLock

\* One turn of its loop: enter disconnect for the next checksum, or return.
LDallLoop(t) ==
    /\ ltask[t].pc = "dall_loop"
    /\ IF ltask[t].checksums = {}
       THEN /\ ltask' = [ltask EXCEPT ![t].pc = "done",
                            ![t].result = disconnect_all_result(ltask[t].errors)]
            /\ UNCHANGED rwlock
       ELSE \E c \in ltask[t].checksums :
              lock_disconnect(t, [ltask[t] EXCEPT !.checksums = @ \ {c}], c)
    /\ UNCHANGED <<connections, now, ticks>>
    /\ UNCHANGED notLock

\* cleanup_stale: now is read, then connections.read().await.
LCleanupStale(t) ==
    /\ ltask[t].pc = "idle"
    /\ ltask' = [ltask EXCEPT ![t] = [IdleLockTask EXCEPT !.op = "cleanup_stale",
                                         !.pc = "cs_read", !.now = now]]
    /\ rwlock' = request(rwlock, t, "read")
    /\ UNCHANGED <<connections, now, ticks>>
    /\ UNCHANGED notLock

\* Its read section: filter the stale entries.
LCsRead(t) ==
    /\ ltask[t].pc = "cs_read"
    /\ holds(rwlock, t)
    /\ ltask' = [ltask EXCEPT ![t].pc = "cs_loop",
                    ![t].checksums = stale_checksums(connections, ltask[t].now)]
    /\ rwlock' = unlock(rwlock, t)
    /\ UNCHANGED <<connections, now, ticks>>
    /\ UNCHANGED notLock

LCsLoop(t) ==
    /\ ltask[t].pc = "cs_loop"
    /\ IF ltask[t].checksums = {}
       THEN /\ ltask' = [ltask EXCEPT ![t].pc = "done", ![t].result = Ok(-1)]
            /\ UNCHANGED rwlock
       ELSE \E c \in ltask[t].checksums :
              lock_disconnect(t, [ltask[t] EXCEPT !.checksums = @ \ {c}], c)
    /\ UNCHANGED <<connections, now, ticks>>
    /\ UNCHANGED notLock

\* get_state(v), is_connected(v), list_connections() or connection_count():
\* connections.read().await.
LIntrospect(t, f, v) ==
    /\ ltask[t].pc = "idle"
    /\ ltask' = [ltask EXCEPT ![t] = [IdleLockTask EXCEPT !.op = f,
                     !.pc = "intro_read",
                     !.wallet_checksum = IF f \in {"get_state", "is_connected"}
                                         THEN v ELSE ""]]
    /\ rwlock' = request(rwlock, t, "read")
    /\ UNCHANGED <<connections, now, ticks>>
    /\ UNCHANGED notLock

\* The value an introspection call computes under its read guard.
introspect(f, v) ==
    CASE f = "get_state" -> [NoValue EXCEPT !.state = get_state(v)]
      [] f = "is_connected" -> [NoValue EXCEPT !.flag = is_connected(v)]
      [] f = "list_connections" -> [NoValue EXCEPT !.list = list_connections]
      [] OTHER -> [NoValue EXCEPT !.count = connection_count]

\* Its read section: compute the value, drop the guard, return.
LIntroRead(t) ==
    /\ ltask[t].pc = "intro_read"
    /\ holds(rwlock, t)
    /\ ltask' = [ltask EXCEPT ![t].pc = "done",
                    ![t].value = introspect(ltask[t].op, ltask[t].wallet_checksum)]
    /\ rwlock' = unlock(rwlock, t)
    /\ UNCHANGED <<connections, now, ticks>>
    /\ UNCHANGED notLock

\* The caller takes what the call returned.
LReturn(t) ==
    /\ ltask[t].pc = "done"
    /\ ltask' = [ltask EXCEPT ![t] = IdleLockTask]
    /\ UNCHANGED <<connections, rwlock, now, ticks>>
    /\ UNCHANGED notLock

\* A step of a task that holds the lock: it runs its section and drops the guard.
Section(t) ==
    \/ LGocRead(t)
    \/ LGocTouch(t)
    \/ LGocMark(t)
    \/ LGocConnected(t)
    \/ LGocError(t)
    \/ LDiscRemove(t)
    \/ LDallRead(t)
    \/ LCsRead(t)
    \/ LIntroRead(t)

\* The other steps of a task: calls, returns of the network, loop turns.
Call(t) ==
    \/ \E v \in LockVaults : LGetOrCreate(t, v)
    \/ LGocInitializeOk(t)
    \/ LGocInitializeFailed(t)
    \/ \E v \in LockVaults : LDisconnect(t, v)
    \/ LDiscNetOk(t)
    \/ LDiscNetFailed(t)
    \/ LDisconnectAll(t)
    \/ LDallLoop(t)
    \/ LCleanupStale(t)
    \/ LCsLoop(t)
    \/ \E f \in Introspections, v \in LockVaults : LIntrospect(t, f, v)
    \/ LReturn(t)

NextLock ==
    \/ \E t \in LockTasks : Section(t) \/ Call(t)
    \/ \E d \in TickSteps : Tick(d)

SpecLock == Init /\ [][NextLock]_vars

\* The runtime polls a task that holds the lock until it has run its section.
FairSpecLock == SpecLock /\ \A t \in LockTasks : WF_vars(Section(t))

\* ======================================================================
\* BreezWalletManager: sdk() and disconnect() on a manager and its clones.
\* ======================================================================
notWallet == <<connections, task, uiSdk, now, ticks, rwlock, ltask, panelVars, breezVars>>

\* #[derive(Clone)]: a clone of manager m, sharing its Arc<LiquidSdk>.
WClone(m, n) ==
    /\ managers[m].exists /\ managers[m].pc = "idle"
    /\ ~managers[n].exists
    /\ managers' = [managers EXCEPT ![n] = [Initialized EXCEPT !.sdk = managers[m].sdk]]
    /\ UNCHANGED handles
    /\ UNCHANGED notWallet

\* sdk(): self.sdk.clone().ok_or(BreezError::NotInitialized)
sdk(m) ==
    IF managers[m].sdk THEN Ok(1) ELSE Err(BreezError("NotInitialized", ""))

WSdk(m) ==
    /\ managers[m].exists /\ managers[m].pc = "idle"
    /\ handles < MaxHandles
    /\ managers' = [managers EXCEPT ![m].sdk_result = sdk(m)]
    /\ handles' = IF sdk(m).tag = "Ok" THEN handles + 1 ELSE handles
    /\ UNCHANGED notWallet

\* A caller drops a handle that sdk() gave it.
WDropHandle ==
    /\ handles > 0
    /\ handles' = handles - 1
    /\ UNCHANGED managers
    /\ UNCHANGED notWallet

\* Arc::strong_count of the LiquidSdk.
sdk_strong_count ==
    Cardinality({m \in Managers : managers[m].sdk}) + handles

\* disconnect(): take the handle out of the field; if there was one and it was
\* the last reference, sdk.disconnect() is awaited; otherwise Ok(()).
WDisconnect(m) ==
    /\ managers[m].exists /\ managers[m].pc = "idle"
    /\ managers[m].disconnects < MaxCalls
    /\ LET r == [managers[m] EXCEPT !.sdk = take(managers[m].sdk),
                                    !.disconnects = @ + 1]
       IN  IF managers[m].sdk /\ sdk_strong_count = 1
           THEN managers' = [managers EXCEPT ![m] = [r EXCEPT !.pc = "disc_net"]]
           ELSE managers' = [managers EXCEPT ![m] = [r EXCEPT !.result = Ok(-1)]]
    /\ UNCHANGED handles
    /\ UNCHANGED notWallet

\* sdk.disconnect().await returns Ok: Ok(()).
WDiscNetOk(m) ==
    /\ managers[m].pc = "disc_net"
    /\ managers' = [managers EXCEPT ![m].pc = "idle",
                       ![m].net_disconnects = @ + 1, ![m].result = Ok(-1)]
    /\ UNCHANGED handles
    /\ UNCHANGED notWallet

\* sdk.disconnect().await returns Err(e): Err(SdkError(e.to_string())).
WDiscNetFailed(m) ==
    /\ managers[m].pc = "disc_net"
    /\ managers' = [managers EXCEPT ![m].pc = "idle",
                       ![m].net_disconnects = @ + 1,
                       ![m].result = Err(BreezError("SdkError", DisconnectMessage))]
    /\ UNCHANGED handles
    /\ UNCHANGED notWallet

NextWallet ==
    \/ \E m \in Managers, n \in Managers : WClone(m, n)
    \/ \E m \in Managers : WSdk(m)
    \/ WDropHandle
    \/ \E m \in Managers : WDisconnect(m)
    \/ \E m \in Managers : WDiscNetOk(m)
    \/ \E m \in Managers : WDiscNetFailed(m)

SpecWallet == Init /\ [][NextWallet]_vars

\* ======================================================================
\* The Lightning panel (ActivePanel, ActiveSend) and the App that owns it.
\* ======================================================================
notPanel == <<connections, task, uiSdk, now, ticks, rwlock, ltask, walletVars, breezVars>>

\* storage::lightning_wallet_exists
lightning_wallet_exists(d) == d.file # "absent"

\* storage::load_lightning_mnemonic: Ok(mnemonic), or Err for a file that is
\* missing or cannot be read.
load_lightning_mnemonic(d) ==
    IF d.file = "ok" THEN [tag |-> "Ok", mnemonic |-> d.mnemonic]
    ELSE [tag |-> "Err", mnemonic |-> ""]

\* store_lightning_mnemonic that returns Ok without writing the file.
store_unwritten(d, mnemonic) ==
    {[ok |-> TRUE, disk |-> d], [ok |-> FALSE, disk |-> d]}

\* storage::store_lightning_mnemonic: the outcomes, as [ok, disk] after the
\* call. It fails before the file is created (disk as before), after the file
\* is created and before it is written whole (unreadable file), or when the
\* permissions cannot be set (file written).
store_lightning_mnemonic(d, mnemonic) ==
    {[ok |-> TRUE, disk |-> StoredFile(mnemonic)],
     [ok |-> FALSE, disk |-> d],
     [ok |-> FALSE, disk |-> CorruptFile],
     [ok |-> FALSE, disk |-> StoredFile(mnemonic)]}

\* ActivePanel::new: Initializing when the vault has a wallet file.
new_state(wallet, d) ==
    IF wallet /\ lightning_wallet_exists(d)
    THEN LightningWalletState("Initializing", "")
    ELSE LightningWalletState("NotCreated", "")

\* App::new with its Panels::new: the Lightning panel is built for the vault,
\* and when the vault has a hot signer a connect with the signer's mnemonic is
\* started. ActivePanel::new / new_empty for a panel without a vault.
AppNew(wallet, signer, d) ==
    /\ panel.kind = "none"
    /\ signer => wallet
    /\ panel' = [NoPanel EXCEPT !.kind = "ActivePanel", !.wallet = wallet,
                   !.lightning_wallet_state = new_state(wallet, d)]
    /\ app' = [breez_manager |-> FALSE, current |-> "Home"]
    /\ inflight' = IF signer THEN <<AsyncTask("init", NoQuote, SignerMnemonic)>>
                   ELSE <<>>
    /\ disk' = d
    /\ UNCHANGED generated
    /\ UNCHANGED notPanel

\* ActiveSend::new / new_without_wallet.
ActiveSendNew(wallet, manager) ==
    /\ panel.kind = "none"
    /\ panel' = [NoPanel EXCEPT !.kind = "ActiveSend", !.wallet = wallet,
                   !.breez_manager = manager]
    /\ UNCHANGED <<app, inflight, disk, generated>>
    /\ UNCHANGED notPanel

\* Whether a message for the panel reaches its update: App passes a message
\* to the panel that is current.
delivered == panel.kind = "ActiveSend" \/ app.current = "Activate"

\* ActivePanel::refresh_balance: the tasks it starts.
refresh_balance(p) ==
    IF p.breez_manager = "Sdk" THEN <<AsyncTask("balance", NoQuote, "")>> ELSE <<>>

\* What the provider, or the initialization, reports when it fails.
ProviderMessage == "provider error"

\* ActivePanel::should_initialize_sdk
should_initialize_sdk(p) ==
    p.lightning_wallet_state.tag = "Initializing" /\ p.breez_manager = "None"

\* ActivePanel::get_init_params, when should_initialize_sdk holds.
get_init_params(p, d) ==
    IF ~p.wallet THEN [tag |-> "Err", mnemonic |-> "", msg |-> "No wallet available"]
    ELSE IF load_lightning_mnemonic(d).tag = "Ok"
    THEN [tag |-> "Ok", mnemonic |-> load_lightning_mnemonic(d).mnemonic, msg |-> ""]
    ELSE [tag |-> "Err", mnemonic |-> "",
          msg |-> "Lightning wallet file corrupted or unreadable: "
                    \o to_string(BreezError("Config", ProviderMessage))
                    \o ". The wallet needs to be reset."]

\* ActivePanel::is_wallet_corrupted: the file exists and cannot be loaded.
is_wallet_corrupted(p, d) ==
    p.wallet /\ lightning_wallet_exists(d) /\ load_lightning_mnemonic(d).tag = "Err"

\* inflight without its i-th task.
remove_at(q, i) == SubSeq(q, 1, i - 1) \o SubSeq(q, i + 1, Len(q))

\* App::set_current_panel(menu). For the Lightning menu: a manager the App
\* holds is passed to a panel that has none (state Ready); else a panel in
\* Initializing without a manager has its connect started from the stored
\* mnemonic, and the function returns before panels.current is assigned; an
\* unreadable wallet file puts the panel in NotCreated with an error. Then
\* panels.current is assigned and the panel reloads (refresh_balance).
AppSetCurrentPanel(menu) ==
    /\ panel.kind = "ActivePanel"
    /\ Len(inflight) < MaxInFlight
    /\ IF menu # "Activate"
       THEN /\ app' = [app EXCEPT !.current = menu]
            /\ UNCHANGED <<panel, inflight>>
       ELSE LET synced == IF app.breez_manager /\ panel.breez_manager = "None"
                          THEN [panel EXCEPT !.breez_manager = "Sdk",
                                   !.lightning_wallet_state = LightningWalletState("Ready", "")]
                          ELSE panel
                params == get_init_params(synced, disk)
                reset == [synced EXCEPT !.error = params.msg,
                             !.lightning_wallet_state = LightningWalletState("NotCreated", "")]
            IN  IF ~app.breez_manager /\ should_initialize_sdk(synced)
                THEN IF params.tag = "Ok"
                     THEN /\ inflight' = Append(inflight, AsyncTask("init", NoQuote, params.mnemonic))
                          /\ UNCHANGED <<panel, app>>
                     ELSE /\ panel' = reset
                          /\ app' = [app EXCEPT !.current = menu]
                          /\ inflight' = inflight \o refresh_balance(reset)
                ELSE /\ panel' = synced
                     /\ app' = [app EXCEPT !.current = menu]
                     /\ inflight' = inflight \o refresh_balance(synced)
    /\ UNCHANGED <<disk, generated>>
    /\ UNCHANGED notPanel

\* App::update(Message::BreezInitialized(result)): the i-th task, a connect,
\* completes. Ok: the App keeps the manager, and the Lightning panel, when it
\* is current, gets a clone, becomes Ready and refreshes its balance. Err: the
\* Lightning panel, when it is current, goes back to NotCreated with an error.
AppBreezInitialized(i, ok) ==
    /\ i \in 1..Len(inflight) /\ inflight[i].op = "init"
    /\ LET rest == remove_at(inflight, i)
           ready == [panel EXCEPT !.breez_manager = "Sdk",
                        !.lightning_wallet_state = LightningWalletState("Ready", "")]
           failed == [panel EXCEPT
                        !.lightning_wallet_state = LightningWalletState("NotCreated", ""),
                        !.error = "Breez SDK initialization failed: "
                                    \o to_string(BreezError("ConnectionFailed", ProviderMessage))
                                    \o ". Please check your API key and try again."]
       IN  IF ok
           THEN /\ app' = [app EXCEPT !.breez_manager = TRUE]
                /\ IF app.current = "Activate"
                   THEN panel' = ready /\ inflight' = rest \o refresh_balance(ready)
                   ELSE panel' = panel /\ inflight' = rest
           ELSE /\ app' = app
                /\ panel' = IF app.current = "Activate" THEN failed ELSE panel
                /\ inflight' = rest
    /\ UNCHANGED <<disk, generated>>
    /\ UNCHANGED notPanel

\* ActiveMessage::CreateLightningWallet: a mnemonic is generated from 32 fresh
\* random bytes (from_entropy accepts every 32-byte entropy) and shown.
CreateLightningWallet ==
    /\ panel.kind = "ActivePanel" /\ delivered
    /\ generated < MaxMnemonics
    /\ generated' = generated + 1
    /\ panel' = [panel EXCEPT !.lightning_wallet_state =
                                 LightningWalletState("ShowingBackup", ToString(generated + 1))]
    /\ UNCHANGED <<app, inflight, disk>>
    /\ UNCHANGED notPanel

\* ActiveMessage::ConfirmBackup: in ShowingBackup, the mnemonic is stored for
\* the vault; then the state is Initializing and the connect is started. A
\* panel without a vault, or a store that fails, sets the error and returns.
ConfirmBackup ==
    /\ panel.kind = "ActivePanel" /\ delivered
    /\ Len(inflight) < MaxInFlight
    /\ LET mnemonic == panel.lightning_wallet_state.mnemonic
       IN  IF panel.lightning_wallet_state.tag # "ShowingBackup"
           THEN UNCHANGED <<panel, inflight, disk>>
           ELSE IF ~panel.wallet
           THEN /\ panel' = [panel EXCEPT !.error = "No wallet available"]
                /\ UNCHANGED <<inflight, disk>>
           ELSE \E o \in store_lightning_mnemonic(disk, mnemonic) :
                  /\ disk' = o.disk
                  /\ IF o.ok
                     THEN /\ panel' = [panel EXCEPT !.stored = "Ok",
                                 !.lightning_wallet_state = LightningWalletState("Initializing", "")]
                          /\ inflight' = Append(inflight, AsyncTask("init", NoQuote, mnemonic))
                     ELSE /\ panel' = [panel EXCEPT !.stored = "Err",
                                 !.error = "Failed to store wallet: "
                                             \o to_string(BreezError("Config", ProviderMessage))]
                          /\ inflight' = inflight
    /\ UNCHANGED <<app, generated>>
    /\ UNCHANGED notPanel

\* Text typed in the import field, as its tokens: a word, or " " for a run of
\* whitespace. Phrase(n, last, pad) is n words, "abandon" but for the last,
\* separated by whitespace, with whitespace around it when pad.
Phrase(n, last, pad) ==
    LET words == [i \in 1..(2 * n - 1) |->
                    IF i % 2 = 0 THEN " " ELSE IF i = 2 * n - 1 THEN last ELSE "abandon"]
    IN  IF pad THEN <<" ">> \o words \o <<" ">> ELSE words

\* What the user may type: nothing, a word too few, a valid phrase with
\* whitespace around it, 24 words with a wrong checksum word, a word too many.
ImportInputs ==
    {Phrase(0, "art", FALSE), Phrase(MnemonicWords - 1, "art", TRUE),
     Phrase(MnemonicWords, "art", TRUE), Phrase(MnemonicWords, "abandon", FALSE),
     Phrase(MnemonicWords + 1, "art", FALSE)}

\* The String of the tokens.
RECURSIVE as_str(_)
as_str(s) == IF s = <<>> THEN "" ELSE Head(s) \o as_str(Tail(s))

\* str::trim left as the identity.
trim_kept(s) == s

\* str::trim: without the leading and the trailing whitespace.
RECURSIVE trim_start(_)
trim_start(s) == IF s # <<>> /\ Head(s) = " " THEN trim_start(Tail(s)) ELSE s

RECURSIVE trim_end(_)
trim_end(s) ==
    IF s # <<>> /\ s[Len(s)] = " " THEN trim_end(SubSeq(s, 1, Len(s) - 1)) ELSE s

trim(s) == trim_end(trim_start(s))

\* str::split_whitespace: the words.
split_whitespace(s) == SelectSeq(s, LAMBDA w : w # " ")

\* bip39::Mnemonic::parse: whether it is Ok. The words are those of the word
\* list, their number is one of the mnemonic lengths, and the last word
\* carries the checksum of the entropy: for 24 words of which the first 23 are
\* "abandon" (entropy zero) that word is "art".
parse(s) ==
    LET words == split_whitespace(s)
    IN  /\ Len(words) = MnemonicWords
        /\ \A i \in 1..Len(words) : words[i] = IF i = Len(words) THEN "art" ELSE "abandon"

\* std::fs::remove_dir_all on the vault's lightning directory, when
\* lightning_dir.exists(): the outcomes, as [ok, disk] after the call. The
\* directory is there with the wallet file, and may be there without it (made
\* by a store that failed, or holding the provider's data); a removal that
\* fails may have removed the wallet file already.
remove_dir_all(d) ==
    {[ok |-> TRUE, disk |-> NoFile], [ok |-> FALSE, disk |-> d], [ok |-> FALSE, disk |-> NoFile]}

\* ActiveMessage::ShowImportWallet
ShowImportWallet ==
    /\ panel.kind = "ActivePanel" /\ delivered
    /\ panel' = [panel EXCEPT !.lightning_wallet_state = ImportingWallet(<<>>, None)]
    /\ UNCHANGED <<app, inflight, disk, generated>>
    /\ UNCHANGED notPanel

\* ActiveMessage::ImportMnemonicEdited(value)
ImportMnemonicEdited(value) ==
    /\ panel.kind = "ActivePanel" /\ delivered
    /\ panel.lightning_wallet_state.tag = "ImportingWallet"
    /\ panel' = [panel EXCEPT !.lightning_wallet_state.mnemonic_input = value]
    /\ UNCHANGED <<app, inflight, disk, generated>>
    /\ UNCHANGED notPanel

\* ActiveMessage::CancelImport
CancelImport ==
    /\ panel.kind = "ActivePanel" /\ delivered
    /\ panel' = [panel EXCEPT !.lightning_wallet_state = LightningWalletState("NotCreated", "")]
    /\ UNCHANGED <<app, inflight, disk, generated>>
    /\ UNCHANGED notPanel

\* ActiveMessage::ConfirmImport: in ImportingWallet, the trimmed input must
\* have 24 words and parse as a BIP39 mnemonic, else the state is
\* ImportingWallet with the input and an error. Then the vault's lightning
\* directory is removed, the trimmed input is stored for the vault, the state
\* is Initializing and the connect is started. A panel without a vault, a
\* removal or a store that fails, sets the panel's error and returns.
ConfirmImport ==
    /\ panel.kind = "ActivePanel" /\ delivered
    /\ Len(inflight) < MaxInFlight
    /\ panel.lightning_wallet_state.tag = "ImportingWallet"
    /\ LET mnemonic_input == panel.lightning_wallet_state.mnemonic_input
           mnemonic_trimmed == trim(mnemonic_input)
           words == split_whitespace(mnemonic_trimmed)
       IN  IF Len(words) # MnemonicWords
           THEN /\ panel' = [panel EXCEPT !.lightning_wallet_state =
                                ImportingWallet(mnemonic_input,
                                    "Invalid mnemonic: expected 24 words, got "
                                       \o ToString(Len(words)))]
                /\ UNCHANGED <<inflight, disk>>
           ELSE IF ~parse(mnemonic_trimmed)
           THEN /\ panel' = [panel EXCEPT !.lightning_wallet_state =
                                ImportingWallet(mnemonic_input,
                                    "Invalid BIP39 mnemonic: " \o ChecksumMessage)]
                /\ UNCHANGED <<inflight, disk>>
           ELSE IF ~panel.wallet
           THEN /\ panel' = [panel EXCEPT !.error = "No wallet available"]
                /\ UNCHANGED <<inflight, disk>>
           ELSE \E r \in remove_dir_all(disk) :
                  IF ~r.ok
                  THEN /\ disk' = r.disk
                       /\ panel' = [panel EXCEPT !.error =
                                       "Failed to delete old wallet: " \o ProviderMessage]
                       /\ inflight' = inflight
                  ELSE \E o \in store_lightning_mnemonic(r.disk, as_str(mnemonic_trimmed)) :
                         /\ disk' = o.disk
                         /\ IF o.ok
                            THEN /\ panel' = [panel EXCEPT !.stored = "Ok",
                                        !.lightning_wallet_state =
                                            LightningWalletState("Initializing", "")]
                                 /\ inflight' = Append(inflight,
                                        AsyncTask("init", NoQuote, as_str(mnemonic_trimmed)))
                            ELSE /\ panel' = [panel EXCEPT !.stored = "Err",
                                        !.error = "Failed to store imported wallet: "
                                                    \o to_string(BreezError("Config", ProviderMessage))]
                                 /\ inflight' = inflight
    /\ UNCHANGED <<app, generated>>
    /\ UNCHANGED notPanel

\* str::parse::<u64> on the amount input: the number, or -1 for Err.
parse_u64(s) ==
    CASE s = "0" -> 0
      [] s = "1000" -> 1000
      [] OTHER -> -1

\* ActiveMessage::DestinationEdited(v)
DestinationEdited(v) ==
    /\ panel.kind \in PanelKinds /\ delivered
    /\ panel' = [panel EXCEPT !.destination = v]
    /\ UNCHANGED <<app, inflight, disk, generated>>
    /\ UNCHANGED notPanel

\* ActiveMessage::AmountEdited(v)
AmountEdited(v) ==
    /\ panel.kind \in PanelKinds /\ delivered
    /\ panel' = [panel EXCEPT !.amount = v]
    /\ UNCHANGED <<app, inflight, disk, generated>>
    /\ UNCHANGED notPanel

\* ActivePanel::prepare_send: [panel, tasks] after it.
prepare_send(p) ==
    LET q == [p EXCEPT !.error = None, !.prepare_send_response = NoQuote,
                       !.preparing = TRUE]
        stop(msg) == [panel |-> [q EXCEPT !.error = msg, !.preparing = FALSE],
                      tasks |-> <<>>]
    IN  IF p.breez_manager = "None" THEN stop("Breez not initialized")
        ELSE IF p.breez_manager # "Sdk" THEN stop("Breez SDK not available")
        ELSE IF ~(parse_u64(p.amount) > 0)
        THEN stop("Please enter a valid amount greater than 0")
        ELSE [panel |-> q,
              tasks |-> <<AsyncTask("prepare", Quote(p.destination, p.amount), "")>>]

\* ActiveSend::update (PrepareSend): the amount is left to the destination.
send_prepare_send(p) ==
    IF p.breez_manager # "None"
    THEN [panel |-> [p EXCEPT !.preparing = TRUE, !.error = None],
          tasks |-> <<AsyncTask("prepare", Quote(p.destination, ""), "")>>]
    ELSE [panel |-> [p EXCEPT !.error = "Breez SDK not initialized"], tasks |-> <<>>]

\* ActiveMessage::PrepareSend and ReviewPayment. The view of ActiveSend emits
\* PrepareSend only, and its update has no arm for ReviewPayment.
PrepareSend(msg) ==
    /\ panel.kind \in PanelKinds /\ delivered
    /\ panel.kind = "ActiveSend" => msg = "PrepareSend"
    /\ Len(inflight) < MaxInFlight
    /\ LET r == IF panel.kind = "ActivePanel" THEN prepare_send(panel)
                ELSE send_prepare_send(panel)
       IN  panel' = r.panel /\ inflight' = inflight \o r.tasks
    /\ UNCHANGED <<app, disk, generated>>
    /\ UNCHANGED notPanel

\* ActivePanel::send_payment that does not look for the prepared quote.
send_payment_unprepared(p) ==
    [panel |-> [p EXCEPT !.error = None, !.sending = TRUE],
     tasks |-> <<AsyncTask("send", p.prepare_send_response, "")>>]

\* ActivePanel::send_payment: [panel, tasks] after it.
send_payment(p) ==
    LET q == [p EXCEPT !.error = None, !.sending = TRUE]
        stop(msg) == [panel |-> [q EXCEPT !.error = msg, !.sending = FALSE],
                      tasks |-> <<>>]
    IN  IF p.breez_manager = "None" THEN stop("Breez not initialized")
        ELSE IF p.breez_manager # "Sdk" THEN stop("Breez SDK not available")
        ELSE IF ~p.prepare_send_response.some THEN stop("Please prepare payment first")
        ELSE [panel |-> q, tasks |-> <<AsyncTask("send", p.prepare_send_response, "")>>]

\* ActiveSend::update (SendPayment)
send_send_payment(p) ==
    IF p.breez_manager = "None"
    THEN [panel |-> [p EXCEPT !.error = "Breez SDK not initialized"], tasks |-> <<>>]
    ELSE IF ~p.prepare_send_response.some
    THEN [panel |-> [p EXCEPT !.error = "Payment not prepared"], tasks |-> <<>>]
    ELSE [panel |-> [p EXCEPT !.sending = TRUE, !.error = None],
          tasks |-> <<AsyncTask("send", p.prepare_send_response, "")>>]

\* The messages that ask for a send.
SendRequests == {"SendPayment", "ConfirmPayment", "Send"}

\* ActiveMessage::SendPayment, ConfirmPayment and Send. The view of ActiveSend
\* emits SendPayment only, and its update has no arm for the other two.
SendPayment(msg) ==
    /\ panel.kind \in PanelKinds /\ delivered
    /\ panel.kind = "ActiveSend" => msg = "SendPayment"
    /\ Len(inflight) < MaxInFlight
    /\ LET r == IF panel.kind = "ActivePanel" THEN send_payment(panel)
                ELSE send_send_payment(panel)
       IN  panel' = r.panel /\ inflight' = inflight \o r.tasks
    /\ UNCHANGED <<app, disk, generated>>
    /\ UNCHANGED notPanel

\* ActiveMessage::CancelPayment
CancelPayment ==
    /\ panel.kind \in PanelKinds /\ delivered
    /\ panel' = [panel EXCEPT !.prepare_send_response = NoQuote,
                              !.preparing = FALSE, !.sending = FALSE]
    /\ UNCHANGED <<app, inflight, disk, generated>>
    /\ UNCHANGED notPanel

\* The i-th task completes and its message goes to App::update, which hands it
\* to the current panel: the Lightning panel handles it (becoming p, starting
\* tasks) when it is current; any other panel ignores it.
complete(i, p, tasks) ==
    /\ panel' = IF delivered THEN p ELSE panel
    /\ inflight' = remove_at(inflight, i) \o (IF delivered THEN tasks ELSE <<>>)
    /\ UNCHANGED <<app, disk, generated>>
    /\ UNCHANGED notPanel

\* ActiveMessage::PaymentPrepared(response)
PaymentPrepared(i) ==
    /\ i \in 1..Len(inflight) /\ inflight[i].op = "prepare"
    /\ complete(i, [panel EXCEPT !.prepare_send_response = inflight[i].quote,
                       !.preparing = FALSE,
                       !.error = IF panel.kind = "ActivePanel" THEN None ELSE @],
                <<>>)

\* PrepareFailed that starts the prepare again.
prepare_failed_retry(p) ==
    [panel |-> [p EXCEPT !.error = "Failed to prepare payment: " \o ProviderMessage],
     tasks |-> <<AsyncTask("prepare", Quote(p.destination, p.amount), "")>>]

\* ActiveMessage::PrepareFailed(err): [panel, tasks] after it.
prepare_failed(p) ==
    [panel |-> [p EXCEPT !.preparing = FALSE,
                   !.error = "Failed to prepare payment: " \o ProviderMessage],
     tasks |-> <<>>]

PrepareFailed(i) ==
    /\ i \in 1..Len(inflight) /\ inflight[i].op = "prepare"
    /\ complete(i, prepare_failed(panel).panel, prepare_failed(panel).tasks)

\* ActiveMessage::PaymentSent(msg): the form and the quote are cleared;
\* ActivePanel shows the message in its error field and refreshes the balance.
PaymentSent(i) ==
    /\ i \in 1..Len(inflight) /\ inflight[i].op = "send"
    /\ LET p == [panel EXCEPT !.sending = FALSE, !.destination = "", !.amount = "",
                    !.prepare_send_response = NoQuote,
                    !.error = IF panel.kind = "ActivePanel"
                              THEN "Payment sent successfully! TX: " ELSE @]
       IN  complete(i, p, IF panel.kind = "ActivePanel" THEN refresh_balance(p)
                          ELSE <<>>)

\* ActiveMessage::SendFailed(err)
SendFailed(i) ==
    /\ i \in 1..Len(inflight) /\ inflight[i].op = "send"
    /\ complete(i, [panel EXCEPT !.sending = FALSE,
                       !.error = "Failed to send payment: " \o ProviderMessage],
                <<>>)

\* ActivePanel::generate_invoice: [panel, tasks] after it.
generate_invoice(p) ==
    LET q == [p EXCEPT !.error = None, !.generated_invoice = FALSE,
                       !.preparing = TRUE]
        stop(msg) == [panel |-> [q EXCEPT !.error = msg, !.preparing = FALSE],
                      tasks |-> <<>>]
    IN  IF p.breez_manager = "None" THEN stop("Breez not initialized")
        ELSE IF p.breez_manager # "Sdk" THEN stop("Breez SDK not available")
        ELSE IF p.amount # "" /\ ~(parse_u64(p.amount) > 0)
        THEN stop("Please enter a valid amount or leave empty")
        ELSE [panel |-> q, tasks |-> <<AsyncTask("invoice", Quote("", p.amount), "")>>]

\* ActiveMessage::GenerateInvoice
GenerateInvoice ==
    /\ panel.kind = "ActivePanel" /\ delivered
    /\ Len(inflight) < MaxInFlight
    /\ panel' = generate_invoice(panel).panel
    /\ inflight' = inflight \o generate_invoice(panel).tasks
    /\ UNCHANGED <<app, disk, generated>>
    /\ UNCHANGED notPanel

\* ActiveMessage::InvoiceGenerated(invoice)
InvoiceGenerated(i) ==
    /\ i \in 1..Len(inflight) /\ inflight[i].op = "invoice"
    /\ complete(i, [panel EXCEPT !.generated_invoice = TRUE, !.preparing = FALSE,
                       !.error = None],
                <<>>)

\* ActiveMessage::InvoiceGenerationFailed(err)
InvoiceGenerationFailed(i) ==
    /\ i \in 1..Len(inflight) /\ inflight[i].op = "invoice"
    /\ complete(i, [panel EXCEPT !.preparing = FALSE,
                       !.error = "Failed to generate invoice: " \o ProviderMessage],
                <<>>)

\* ActiveMessage::NewInvoice
NewInvoice ==
    /\ panel.kind = "ActivePanel" /\ delivered
    /\ panel' = [panel EXCEPT !.generated_invoice = FALSE, !.amount = ""]
    /\ UNCHANGED <<app, inflight, disk, generated>>
    /\ UNCHANGED notPanel

\* ActiveMessage::RefreshBalance
RefreshBalance ==
    /\ panel.kind = "ActivePanel" /\ delivered
    /\ Len(inflight) < MaxInFlight
    /\ inflight' = inflight \o refresh_balance(panel)
    /\ UNCHANGED <<panel, app, disk, generated>>
    /\ UNCHANGED notPanel

\* ActiveMessage::BalanceUpdated(balance), and ActiveMessage::Error(e) when
\* get_balance fails.
BalanceUpdated(i, ok) ==
    /\ i \in 1..Len(inflight) /\ inflight[i].op = "balance"
    /\ complete(i, IF ok THEN [panel EXCEPT !.balance = TRUE]
                   ELSE [panel EXCEPT !.error = ProviderMessage],
                <<>>)

\* view::Message::Close
Close ==
    /\ panel.kind = "ActivePanel" /\ delivered
    /\ panel' = [panel EXCEPT !.error = None]
    /\ UNCHANGED <<app, inflight, disk, generated>>
    /\ UNCHANGED notPanel

\* Messages of the wallet setup screens.
SetupMessage ==
    \/ CreateLightningWallet
    \/ ConfirmBackup
    \/ ShowImportWallet
    \/ \E value \in ImportInputs : ImportMnemonicEdited(value)
    \/ CancelImport
    \/ ConfirmImport

\* Messages of the send and receive forms.
FormMessage ==
    \/ \E v \in Destinations : DestinationEdited(v)
    \/ \E v \in Amounts : AmountEdited(v)
    \/ \E msg \in {"PrepareSend", "ReviewPayment"} : PrepareSend(msg)
    \/ \E msg \in SendRequests : SendPayment(msg)
    \/ CancelPayment
    \/ GenerateInvoice
    \/ NewInvoice

\* Messages of every screen of the panel, and the menu.
CommonMessage ==
    \/ RefreshBalance
    \/ Close
    \/ \E menu \in {"Home", "Activate"} : AppSetCurrentPanel(menu)

\* The message of a connect or of a balance request that completed.
AppTaskMessage ==
    \/ \E i \in 1..MaxInFlight, ok \in BOOLEAN : AppBreezInitialized(i, ok)
    \/ \E i \in 1..MaxInFlight, ok \in BOOLEAN : BalanceUpdated(i, ok)

\* The message of a payment request that completed.
FormTaskMessage ==
    \/ \E i \in 1..MaxInFlight : PaymentPrepared(i)
    \/ \E i \in 1..MaxInFlight : PrepareFailed(i)
    \/ \E i \in 1..MaxInFlight : PaymentSent(i)
    \/ \E i \in 1..MaxInFlight : SendFailed(i)
    \/ \E i \in 1..MaxInFlight : InvoiceGenerated(i)
    \/ \E i \in 1..MaxInFlight : InvoiceGenerationFailed(i)

\* The wallet setup: the panel of a vault with or without a wallet file and a
\* hot signer, the setup screens, the menu, and the connects.
NextSetup ==
    \/ \E wallet \in BOOLEAN, signer \in BOOLEAN,
          d \in {NoFile, CorruptFile, StoredFile(OldMnemonic)} : AppNew(wallet, signer, d)
    \/ SetupMessage
    \/ CommonMessage
    \/ AppTaskMessage

SpecSetup == Init /\ [][NextSetup]_vars

\* The payments: the panel of a vault whose wallet file is there, or an
\* ActiveSend, with the send and receive forms, the menu, and the requests.
NextPay ==
    \/ AppNew(TRUE, FALSE, StoredFile(OldMnemonic))
    \/ \E wallet \in BOOLEAN, manager \in {"None", "Sdk"} : ActiveSendNew(wallet, manager)
    \/ FormMessage
    \/ CommonMessage
    \/ AppTaskMessage
    \/ FormTaskMessage

SpecPay == Init /\ [][NextPay]_vars

\* ======================================================================
\* storage.rs: the cipher, and the encrypted wallet file of each vault.
\* ======================================================================
notBreez == <<connections, task, uiSdk, now, ticks, rwlock, ltask, walletVars, panelVars>>

\* key[i % 32] ^ nonce[i % 12] ^ (i as u8), for the index i from 0.
keystream_byte(key, nonce, i) ==
    xor(xor(key[(i % KEY_LEN) + 1], nonce[(i % NONCE_LEN) + 1]), i % 256)

\* encrypt_chacha20(data, key), with the nonce it draws: the nonce, then each
\* byte of the data xor-ed with its keystream byte.
encrypt_chacha20(data, key, nonce) ==
    nonce \o [j \in 1..Len(data) |-> xor(data[j], keystream_byte(key, nonce, j - 1))]

\* decrypt_chacha20 with a keystream that leaves the index out.
decrypt_without_index(data, key) ==
    IF Len(data) < NONCE_LEN THEN <<>>
    ELSE LET nonce == SubSeq(data, 1, NONCE_LEN)
             ciphertext == SubSeq(data, NONCE_LEN + 1, Len(data))
         IN  [j \in 1..Len(ciphertext) |->
                xor(ciphertext[j], xor(key[((j - 1) % KEY_LEN) + 1],
                                       nonce[((j - 1) % NONCE_LEN) + 1]))]

\* decrypt_chacha20(data, key): nothing for less than a nonce, else the bytes
\* after the nonce xor-ed with the same keystream.
decrypt_chacha20(data, key) ==
    IF Len(data) < NONCE_LEN THEN <<>>
    ELSE LET nonce == SubSeq(data, 1, NONCE_LEN)
             ciphertext == SubSeq(data, NONCE_LEN + 1, Len(data))
         IN  [j \in 1..Len(ciphertext) |->
                xor(ciphertext[j], keystream_byte(key, nonce, j - 1))]

\* tests::test_encrypt_decrypt, for a message, a key and the nonce drawn.
test_encrypt_decrypt(data, key, nonce) ==
    /\ cipher' = [data |-> data, key |-> key,
                  encrypted |-> encrypt_chacha20(data, key, nonce),
                  decrypted |-> decrypt_chacha20(encrypt_chacha20(data, key, nonce), key)]
    /\ UNCHANGED <<notBreez, storage, initcall, events, report>>

NextCipher ==
    \E data \in Messages, key \in Keys, nonce \in Nonces : test_encrypt_decrypt(data, key, nonce)

SpecCipher == Init /\ [][NextCipher]_vars

\* The host name that derive_encryption_key hashes: COMPUTERNAME, else
\* HOSTNAME, else nothing.
hostname(env) == IF env.COMPUTERNAME # None THEN env.COMPUTERNAME ELSE env.HOSTNAME

\* DefaultHasher over the network directory (one, fixed), the wallet checksum,
\* the host name if any, and the salt: finish(), as the 8 bytes of the u64,
\* lowest first. The values stand for those of SipHash: one for each input.
DefaultHasher(wallet_checksum, name) ==
    CASE wallet_checksum = "v1" /\ name = "hostA" -> <<255, 255, 255, 255, 255, 255, 255, 255>>
      [] wallet_checksum = "v1" /\ name = None -> <<60, 181, 7, 222, 19, 94, 240, 133>>
      [] wallet_checksum = "v1" /\ name = "hostB" -> <<201, 12, 166, 75, 238, 3, 87, 146>>
      [] wallet_checksum = "v2" /\ name = "hostA" -> <<254, 255, 144, 29, 61, 208, 115, 2>>
      [] wallet_checksum = "v2" /\ name = None -> <<9, 130, 251, 68, 177, 34, 215, 100>>
      [] OTHER -> <<148, 71, 26, 193, 110, 255, 48, 229>>

\* u64::wrapping_add(i) on the 8 bytes, lowest first.
RECURSIVE wrapping_add(_, _)
wrapping_add(hash, i) ==
    IF hash = <<>> THEN <<>>
    ELSE <<(Head(hash) + i) % 256>> \o wrapping_add(Tail(hash), (Head(hash) + i) \div 256)

\* derive_encryption_key: the four chunks hash + 0 .. hash + 3, to_le_bytes.
derive_encryption_key(wallet_checksum, env) ==
    LET hash == DefaultHasher(wallet_checksum, hostname(env))
    IN  wrapping_add(hash, 0) \o wrapping_add(hash, 1) \o wrapping_add(hash, 2)
          \o wrapping_add(hash, 3)

\* String::from_utf8: whether the bytes are UTF-8.
RECURSIVE from_utf8(_)
from_utf8(b) ==
    IF b = <<>> THEN TRUE
    ELSE LET n == Len(b)
             cont(i) == i <= n /\ b[i] \in 128..191
             rest(i) == from_utf8(SubSeq(b, i, n))
         IN  CASE b[1] < 128 -> rest(2)
               [] b[1] \in 194..223 -> cont(2) /\ rest(3)
               [] b[1] = 224 -> n >= 2 /\ b[2] \in 160..191 /\ cont(3) /\ rest(4)
               [] b[1] \in (225..236) \cup {238, 239} -> cont(2) /\ cont(3) /\ rest(4)
               [] b[1] = 237 -> n >= 2 /\ b[2] \in 128..159 /\ cont(3) /\ rest(4)
               [] b[1] = 240 -> n >= 2 /\ b[2] \in 144..191 /\ cont(3) /\ cont(4) /\ rest(5)
               [] b[1] \in 241..243 -> cont(2) /\ cont(3) /\ cont(4) /\ rest(5)
               [] b[1] = 244 -> n >= 2 /\ b[2] \in 128..143 /\ cont(3) /\ cont(4) /\ rest(5)
               [] OTHER -> FALSE

\* What the decoder reports for bytes that are not UTF-8.
Utf8Message == "invalid utf-8 sequence"

\* store_lightning_mnemonic encrypting with a key that is not the vault's.
wallet_file_other_key(wallet_checksum, env, mnemonic, nonce) ==
    <<1>> \o encrypt_chacha20(mnemonic, derive_encryption_key("", env), nonce)

\* store_lightning_mnemonic without the version byte.
wallet_file_unversioned(wallet_checksum, env, mnemonic, nonce) ==
    encrypt_chacha20(mnemonic, derive_encryption_key(wallet_checksum, env), nonce)

\* The bytes that store_lightning_mnemonic writes: the version, then the
\* encrypted mnemonic.
wallet_file(wallet_checksum, env, mnemonic, nonce) ==
    <<1>> \o encrypt_chacha20(mnemonic, derive_encryption_key(wallet_checksum, env), nonce)

\* load_lightning_mnemonic that does not look at the version byte.
load_any_version(f, wallet_checksum, env) ==
    LET err(msg) == [tag |-> "Err", mnemonic |-> <<>>, err |-> BreezError("Config", msg)]
        decrypted == decrypt_chacha20(Tail(f.data), derive_encryption_key(wallet_checksum, env))
    IN  IF ~f.exists
        THEN err("Lightning wallet not found for Bitcoin wallet " \o wallet_checksum)
        ELSE IF f.data = <<>> THEN err("Wallet file is empty")
        ELSE IF ~from_utf8(decrypted)
        THEN err("Failed to decode mnemonic: " \o Utf8Message)
        ELSE [tag |-> "Ok", mnemonic |-> decrypted, err |-> NoError]

\* load_lightning_mnemonic on the file f of the vault (a file that exists can
\* be opened and read).
load_wallet_file(f, wallet_checksum, env) ==
    LET err(msg) == [tag |-> "Err", mnemonic |-> <<>>, err |-> BreezError("Config", msg)]
        decrypted == decrypt_chacha20(Tail(f.data), derive_encryption_key(wallet_checksum, env))
    IN  IF ~f.exists
        THEN err("Lightning wallet not found for Bitcoin wallet " \o wallet_checksum)
        ELSE IF f.data = <<>> THEN err("Wallet file is empty")
        ELSE IF f.data[1] # 1
        THEN err("Unsupported wallet file version: " \o ToString(f.data[1]))
        ELSE IF ~from_utf8(decrypted)
        THEN err("Failed to decode mnemonic: " \o Utf8Message)
        ELSE [tag |-> "Ok", mnemonic |-> decrypted, err |-> NoError]

\* The nonces drawn when a wallet file is written.
StoreNonces == {Pattern(NONCE_LEN, 0), Pattern(NONCE_LEN, 21)}

\* The steps of store_lightning_mnemonic that can fail, and "Ok".
StoreStages == {"create", "version", "encrypted", "permissions", "Ok"}

\* store_lightning_mnemonic(network_dir, v, mnemonic), with the nonce drawn
\* and the step at which it fails, if any: at create_dir_all or File::create
\* (the file as before), at the version byte (created, empty), at the
\* encrypted bytes (the version byte, or the version byte, the nonce and two
\* bytes more, written), at the permissions (written whole).
StoreMnemonic(v, mnemonic, nonce, stage) ==
    LET whole == wallet_file(v, storage.env, mnemonic, nonce)
        partial == IF Len(mnemonic) > NONCE_LEN THEN SubSeq(whole, 1, 1 + NONCE_LEN + 2)
                   ELSE SubSeq(whole, 1, 1)
        file == CASE stage = "create" -> storage.files[v]
                  [] stage = "version" -> File(<<>>)
                  [] stage = "encrypted" -> File(partial)
                  [] OTHER -> File(whole)
    IN  /\ storage' = [storage EXCEPT
                         !.files[v] = file,
                         !.stored[v] = IF stage = "Ok" THEN Stored(mnemonic, storage.env)
                                       ELSE IF file = storage.files[v] THEN @
                                       ELSE NotStored,
                         !.loaded = NoLoad]
        /\ UNCHANGED <<notBreez, cipher, initcall, events, report>>

\* load_lightning_mnemonic(network_dir, v)
LoadMnemonic(v) ==
    /\ storage' = [storage EXCEPT !.loaded =
                      [vault |-> v] @@ load_wallet_file(storage.files[v], v, storage.env)]
    /\ UNCHANGED <<notBreez, cipher, initcall, events, report>>

\* The vault's lightning directory is removed (ConfirmImport's remove_dir_all).
RemoveDir(v) ==
    /\ storage.files[v].exists
    /\ storage' = [storage EXCEPT !.files[v] = Absent, !.stored[v] = NotStored,
                                  !.loaded = NoLoad]
    /\ UNCHANGED <<notBreez, cipher, initcall, events, report>>

\* Files that this version does not write: of another version, or damaged.
ForeignFiles == {<<0>>, <<2>> \o Pattern(NONCE_LEN + 4, 5)}

\* Something else than store_lightning_mnemonic writes the vault's file.
ForeignWrite(v, data) ==
    /\ storage' = [storage EXCEPT !.files[v] = File(data), !.stored[v] = NotStored,
                                  !.loaded = NoLoad]
    /\ UNCHANGED <<notBreez, cipher, initcall, events, report>>

\* The application is started again, in an environment that may be another.
Restart(env) ==
    /\ env # storage.env
    /\ storage' = [storage EXCEPT !.env = env, !.loaded = NoLoad]
    /\ UNCHANGED <<notBreez, cipher, initcall, events, report>>

NextStorage ==
    \/ \E v \in Vaults, mnemonic \in Mnemonics, nonce \in StoreNonces, stage \in StoreStages :
          StoreMnemonic(v, mnemonic, nonce, stage)
    \/ \E v \in Vaults : LoadMnemonic(v)
    \/ \E v \in Vaults : RemoveDir(v)
    \/ \E v \in Vaults, data \in ForeignFiles : ForeignWrite(v, data)
    \/ \E env \in Environments : Restart(env)

SpecStorage == Init /\ [][NextStorage]_vars


\* ======================================================================
\* init.rs, config.rs, wallet.rs: the initialization of a session.
\* ======================================================================
\* std::env::var("BREEZ_API_KEY").ok().filter(|k| !k.is_empty())
api_key(env_key) == IF env_key = "" THEN None ELSE env_key

\* BreezConfig::new: the Liquid network of the Bitcoin network, and the API
\* key of the environment, if any, for mainnet and testnet. Without a key it
\* logs, and returns the configuration all the same.
BreezConfig_new(network, env_key) ==
    LET liquid_network == CASE network = "Bitcoin" -> "Mainnet"
                            [] network = "Regtest" -> "Regtest"
                            [] OTHER -> "Testnet"
    IN  [network |-> liquid_network,
         breez_api_key |-> IF liquid_network = "Regtest" THEN None ELSE api_key(env_key)]

\* A session is initialized by one of the paths. initialize_breez_sdk returns
\* Err(Config) if the API key is not set or empty, and then calls
\* BreezWalletManager::initialize, which the other paths call at once: it
\* derives the seed (Err(InvalidMnemonic) for a phrase that does not parse),
\* builds the configuration and calls LiquidSdk::connect.
InitializeSession(path, env_key, network, mnemonic_ok) ==
    /\ initcall.pc = "idle"
    /\ LET call == [initcall EXCEPT !.path = path, !.env_key = env_key, !.network = network]
           err(e) == [call EXCEPT !.pc = "done", !.result = [tag |-> "Err", err |-> e]]
       IN  initcall' =
             IF path = "initialize_breez_sdk" /\ api_key(env_key) = None
             THEN err(BreezError("Config",
                    "BREEZ_API_KEY not set. Get a free API key from "
                       \o "https://breez.technology/request-api-key/"))
             ELSE IF ~mnemonic_ok
             THEN err(BreezError("InvalidMnemonic", ChecksumMessage))
             ELSE [call EXCEPT !.pc = "connect", !.connects = @ + 1,
                               !.config = BreezConfig_new(network, env_key)]
    /\ UNCHANGED <<notBreez, storage, cipher, events, report>>

\* LiquidSdk::connect returns: Ok, or Err mapped to ConnectionFailed. After
\* Ok, the paths that set up the event listener fail when add_event_listener
\* does; get_or_create has no listener.
ConnectReturns(outcome) ==
    /\ initcall.pc = "connect"
    /\ outcome = "EventListenerFailed" => initcall.path # "get_or_create"
    /\ initcall' = [initcall EXCEPT !.pc = "done",
                      !.result = IF outcome = "Ok" THEN [tag |-> "Ok", err |-> NoError]
                                 ELSE [tag |-> "Err", err |-> BreezError(outcome, ConnectMessage)]]
    /\ UNCHANGED <<notBreez, storage, cipher, events, report>>

\* The caller has the result.
InitializeReturns ==
    /\ initcall.pc = "done"
    /\ initcall' = NoCall
    /\ UNCHANGED <<notBreez, storage, cipher, events, report>>

NextInit ==
    \/ \E path \in InitPaths, env_key \in ApiKeys, network \in Networks, mnemonic_ok \in BOOLEAN :
          InitializeSession(path, env_key, network, mnemonic_ok)
    \/ \E outcome \in {"Ok", "ConnectionFailed", "EventListenerFailed"} : ConnectReturns(outcome)
    \/ InitializeReturns

SpecInit == Init /\ [][NextInit]_vars


\* ======================================================================
\* events.rs: the listener registered with the provider and its channel.
\* ======================================================================
\* No internal event.
NoEvent == [kind |-> "none"]

\* handle_sdk_event: the BreezEvent for the SdkEvent, NoEvent for the variants
\* it returns on.
handle_sdk_event(event) ==
    CASE event.kind = "PaymentSucceeded" ->
           [kind |-> "PaymentSucceeded",
            payment_id |-> IF event.destination = None THEN "" ELSE event.destination,
            amount_sat |-> event.amount_sat]
      [] event.kind = "PaymentFailed" ->
           [kind |-> "PaymentFailed",
            payment_id |-> IF event.destination = None THEN "unknown" ELSE event.destination,
            error |-> "Payment failed: " \o ToString(event)]
      [] event.kind = "PaymentPending" ->
           [kind |-> "PaymentPending",
            payment_id |-> IF event.destination = None THEN "" ELSE event.destination]
      [] event.kind = "Synced" -> [kind |-> "SyncComplete"]
      [] OTHER -> NoEvent

\* setup_event_listener: a new unbounded channel, its sender in the handler
\* registered with the provider, its receiver returned (App keeps it in
\* breez_event_receiver).
setup_event_listener ==
    /\ ~events.registered
    /\ events' = [events EXCEPT !.registered = TRUE]
    /\ UNCHANGED <<notBreez, storage, cipher, initcall, report>>

\* EventListener::on_event(event), called by the provider: the BreezEvent, if
\* any, is sent into the channel. No step takes an event out of the channel:
\* App::subscription has no subscription that reads the receiver, and nothing
\* makes a Message::BreezEvent.
on_event(event) ==
    /\ events.registered
    /\ events.emitted < MaxEvents
    /\ LET breez_event == handle_sdk_event(event)
       IN  events' = IF breez_event = NoEvent
                     THEN [events EXCEPT !.emitted = @ + 1]
                     ELSE [events EXCEPT !.emitted = @ + 1,
                                         !.channel = Append(@, breez_event),
                                         !.sent = Append(@, breez_event)]
    /\ UNCHANGED <<notBreez, storage, cipher, initcall, report>>

NextEvents ==
    \/ setup_event_listener
    \/ \E kind \in SdkEventKinds, destination \in {None, "lnbc1"} :
          on_event(SdkEvent(kind, destination))

SpecEvents == Init /\ [][NextEvents]_vars

\* The provider and the runtime keep running.
FairSpecEvents == SpecEvents /\ WF_vars(NextEvents)


\* ======================================================================
\* error_mapper.rs: the message shown to the user for a BreezError.
\* ======================================================================
\* str::contains(pat)
contains(s, pat) ==
    \E i \in 1..(Len(s) - Len(pat) + 1) : SubSeq(s, i, i + Len(pat) - 1) = pat

\* friendly_error_message(error)
friendly_error_message(error) ==
    CASE error.kind = "ConnectionFailed" ->
           "Connection lost: " \o error.msg
              \o ". Please check your internet connection and try again."
      [] error.kind = "NotInitialized" ->
           "Wallet not ready. Please wait for initialization to complete."
      [] error.kind = "SendFailed" ->
           "Payment failed: " \o error.msg \o ". Please check the destination and try again."
      [] error.kind = "ReceiveFailed" ->
           "Unable to generate invoice: " \o error.msg \o ". Please try again."
      [] error.kind = "PrepareFailed" ->
           "Payment preparation failed: " \o error.msg \o ". Please try again."
      [] error.kind = "InvalidDestination" ->
           "Invalid payment destination. Please check the address or invoice."
      [] error.kind = "AmountOutOfLimits" ->
           "Amount must be between " \o ToString(error.min) \o " and "
              \o ToString(error.max) \o " sats."
      [] error.kind = "InvalidMnemonic" -> "Invalid mnemonic: " \o error.msg \o "."
      [] error.kind = "DerivationFailed" -> "Key derivation failed: " \o error.msg \o "."
      [] error.kind = "InvalidPath" -> "Invalid derivation path: " \o error.msg \o "."
      [] error.kind = "LimitsFetchFailed" ->
           "Unable to fetch payment limits: " \o error.msg \o ". Please try again later."
      [] error.kind = "BalanceFetchFailed" ->
           "Unable to fetch balance: " \o error.msg \o ". Please try again later."
      [] error.kind = "EventListenerFailed" ->
           "Event listener failed: " \o error.msg
              \o ". The app may not receive real-time updates."
      [] error.kind = "SdkError" ->
           IF contains(error.msg, "timeout") \/ contains(error.msg, "timed out")
           THEN "Operation timed out. Please try again."
           ELSE IF contains(error.msg, "offline") \/ contains(error.msg, "unreachable")
           THEN "Service temporarily unavailable. Please try again later."
           ELSE "An error occurred: " \o error.msg
                   \o ". Please try again or contact support."
      [] OTHER -> "Something went wrong. Please try again or restart the application."

\* The character U+1F4A1 that opens every hint, written in ASCII.
Bulb == "U+1F4A1"

\* error_action_hint with the hint for NotInitialized left out.
error_action_hint_two(error) ==
    CASE error.kind = "AmountOutOfLimits" -> Bulb \o " Check the payment limits in the UI"
      [] error.kind = "InvalidDestination" ->
           Bulb \o " Make sure you copied the entire invoice/address"
      [] OTHER -> None

\* error_action_hint(error)
error_action_hint(error) ==
    CASE error.kind = "AmountOutOfLimits" -> Bulb \o " Check the payment limits in the UI"
      [] error.kind = "InvalidDestination" ->
           Bulb \o " Make sure you copied the entire invoice/address"
      [] error.kind = "NotInitialized" ->
           Bulb \o " Try restarting the application if this persists"
      [] OTHER -> None

\* full_error_message(error)
full_error_message(error) ==
    LET message == friendly_error_message(error)
        hint == error_action_hint(error)
    IN  IF hint # None THEN message \o "\n\n" \o hint ELSE message

\* A caller maps an error for the user.
ReportError(error) ==
    /\ report' = [done |-> TRUE, error |-> error,
                  message |-> friendly_error_message(error),
                  hint |-> error_action_hint(error),
                  full |-> full_error_message(error)]
    /\ UNCHANGED <<notBreez, storage, cipher, initcall, events>>

NextMapper == \E error \in BreezErrors : ReportError(error)

SpecMapper == Init /\ [][NextMapper]_vars


\* ======================================================================
\* helpers.rs: the pool and the wallet file behind one call. One caller, and
\* the file of the vault "v1".
\* ======================================================================
\* Result<bool, BreezError> and Result<Option<BreezWalletManager>, BreezError>:
\* the Ok values that carry no manager.
OkBool(b) == [tag |-> IF b THEN "Ok(true)" ELSE "Ok(false)", manager |-> -1, err |-> NoError]
OkNone == [tag |-> "Ok(None)", manager |-> -1, err |-> NoError]

\* What load_lightning_mnemonic and store_lightning_mnemonic return on failure.
StorageError == BreezError("Config", ProviderMessage)

\* auto_create_lightning_wallet without its check for an existing file.
auto_create_unchecked(d, mnemonic) ==
    {[result |-> IF o.ok THEN OkBool(TRUE) ELSE Err(StorageError), disk |-> o.disk,
      generated |-> TRUE] : o \in store_lightning_mnemonic(d, mnemonic)}

\* auto_create_lightning_wallet(network_dir, v, name) on the file d, where
\* mnemonic is what generate_lightning_mnemonic would produce: the outcomes as
\* [result, disk after the call, whether a mnemonic was generated].
auto_create_lightning_wallet(d, mnemonic) ==
    IF lightning_wallet_exists(d)
    THEN {[result |-> OkBool(FALSE), disk |-> d, generated |-> FALSE]}
    ELSE {[result |-> IF o.ok THEN OkBool(TRUE) ELSE Err(StorageError), disk |-> o.disk,
           generated |-> TRUE] : o \in store_lightning_mnemonic(d, mnemonic)}

\* A caller runs auto_create_lightning_wallet for the vault.
AutoCreateLightningWallet(t) ==
    /\ task[t].pc = "idle"
    /\ generated < MaxMnemonics
    /\ \E o \in auto_create_lightning_wallet(disk, ToString(generated + 1)) :
          /\ task' = [task EXCEPT ![t] =
                        [IdleTask EXCEPT !.pc = "done", !.op = "auto_create_lightning_wallet",
                                         !.wallet_checksum = "v1", !.result = o.result]]
          /\ disk' = o.disk
          /\ generated' = IF o.generated THEN generated + 1 ELSE generated
    /\ UNCHANGED <<connections, uiSdk, now, ticks, rwlock, ltask, walletVars, breezVars,
                   panel, app, inflight>>

\* get_or_create_breez_connection that goes to the pool without looking at
\* the file.
helper_branch_pool(d) == "get_or_create"

\* get_or_create_breez_connection before the pool: Ok(None) without a file,
\* the load error for a file that cannot be loaded, the pool otherwise.
helper_branch(d) ==
    IF ~lightning_wallet_exists(d) THEN "none"
    ELSE IF load_lightning_mnemonic(d).tag = "Err" THEN "load_error"
    ELSE "get_or_create"

\* get_or_create_breez_connection(manager, v, network_dir): returns at once, or
\* is at the first lock section of manager.get_or_create(v, mnemonic).
GetOrCreateBreezConnection(t, v) ==
    /\ task[t].pc = "idle"
    /\ LET b == helper_branch(disk)
           r == [IdleTask EXCEPT !.pc = "done", !.op = "get_or_create_breez_connection",
                                 !.wallet_checksum = v]
       IN  CASE b = "none" ->
                  /\ task' = [task EXCEPT ![t] = [r EXCEPT !.result = OkNone]]
                  /\ UNCHANGED <<connections, uiSdk, now, ticks>>
                  /\ UNCHANGED notPool
             [] b = "load_error" ->
                  /\ task' = [task EXCEPT ![t] = [r EXCEPT !.result = Err(StorageError)]]
                  /\ UNCHANGED <<connections, uiSdk, now, ticks>>
                  /\ UNCHANGED notPool
             [] OTHER -> GetOrCreate(t, v)

\* The vault's file as the panel, or anything else, leaves it.
FileChanges(d) ==
    /\ disk # d
    /\ disk' = d
    /\ UNCHANGED <<connections, task, uiSdk, now, ticks, rwlock, ltask, walletVars,
                   breezVars, panel, app, inflight, generated>>

NextHelpers ==
    \/ AutoCreateLightningWallet("t1")
    \/ GetOrCreateBreezConnection("t1", "v1")
    \/ \E d \in {NoFile, CorruptFile, StoredFile(OldMnemonic)} : FileChanges(d)
    \/ NextSolo

SpecHelpers == Init /\ [][NextHelpers]_vars


\* ======================================================================
\* Properties
\* ======================================================================
\* Task t makes a step of its call.
Moves(t) == task'[t] # task[t]

\* Task t starts operation o on cube v with this step.
Starts(t, o, v) ==
    /\ task[t].pc = "idle"
    /\ task'[t].op = o
    /\ task'[t].wallet_checksum = v

\* C1 - Connection reuse. A get_or_create(v, m) that finds v's entry Connected
\* takes a clone of the manager in that entry, issues no network connect, and
\* returns that clone, whatever happens to the pool before it returns. (The
\* entry is the one a successful earlier get_or_create inserted: C4.)
C1_ConnectionReuse ==
    [][\A t \in Tasks, v \in Vaults :
         /\ (Starts(t, "get_or_create", v) /\ get_state(v) = Connected)
               => /\ task'[t].pc = "goc_touch"
                  /\ task'[t].manager = get(connections, v).manager
                  /\ task'[t].connects = 0
                  /\ connections' = connections
         /\ (task[t].pc = "goc_touch" /\ Moves(t))
               => /\ task'[t].pc = "done"
                  /\ task'[t].result = Ok(task[t].manager)
                  /\ task'[t].connects = 0
                  /\ keys(connections') = keys(connections)
                  /\ \A k \in keys(connections) :
                        /\ get(connections', k).manager = get(connections, k).manager
                        /\ get(connections', k).state = get(connections, k).state
      ]_vars

\* A second get_or_create has returned the handle of the Connected entry of its
\* cube without having connected.
C1_Witness ==
    \E t \in Tasks :
        /\ task[t].op = "get_or_create" /\ task[t].pc = "done"
        /\ task[t].connects = 0 /\ task[t].result.tag = "Ok"
        /\ get_state(task[t].wallet_checksum) = Connected
        /\ get(connections, task[t].wallet_checksum).manager = task[t].result.manager

\* C2 - Concurrency dedup. A get_or_create(v, m) that finds v's entry
\* Initializing returns the "already in progress" error at once, without a
\* network connect and without changing the pool.
C2_AlreadyInitializing ==
    [][\A t \in Tasks, v \in Vaults :
         (Starts(t, "get_or_create", v) /\ get_state(v) = Initializing)
            => /\ task'[t].pc = "done"
               /\ task'[t].result =
                     Err(BreezError("Config", "Connection initialization already in progress"))
               /\ task'[t].connects = 0
               /\ connections' = connections
      ]_vars

\* A get_or_create has been turned away while another one is initializing the
\* same cube.
C2_Witness ==
    \E t \in Tasks, u \in Tasks :
        /\ task[t].op = "get_or_create" /\ task[t].pc = "done"
        /\ task[t].result.tag = "Err" /\ task[t].result.err.kind = "Config"
        /\ task[u].op = "get_or_create" /\ task[u].pc = "goc_initialize"
        /\ task[u].wallet_checksum = task[t].wallet_checksum

\* The manager the pool holds for cube v after the step (-1: no entry).
pool_manager_after(v) ==
    IF contains_key(connections', v) THEN get(connections', v).manager ELSE -1

\* C3 - Scenario B. With one caller at a time, a get_or_create(v, m) on a cube
\* without an entry leaves get_state(v) = NotInitialized until its placeholder
\* is written, Initializing from then until the connect returns, and Connected
\* once it has returned Ok; nothing else changes the cube's state while the call
\* runs. A get_or_create(v, m) that starts with the cube Connected returns Ok
\* without a connect, the state being Connected throughout.
C3_ScenarioB ==
    [][\A v \in Vaults :
         LET t == "t1" IN
         /\ (Starts(t, "get_or_create", v) /\ ~contains_key(connections, v))
               => /\ task'[t].pc = "goc_mark"
                  /\ get_state(v)' = NotInitialized
         /\ (task[t].pc = "goc_mark" /\ task[t].wallet_checksum = v
               /\ get_state(v) = NotInitialized)
               => \/ /\ ~Moves(t)
                     /\ get_state(v)' = NotInitialized
                  \/ /\ task'[t].pc = "goc_initialize"
                     /\ get_state(v)' = Initializing
         /\ (task[t].pc = "goc_initialize" /\ task[t].wallet_checksum = v)
               => /\ get_state(v) = Initializing
                  /\ \/ /\ ~Moves(t)
                        /\ get_state(v)' = Initializing
                     \/ /\ task'[t].pc = "done"
                        /\ task'[t].result.tag = "Ok"
                        /\ get_state(v)' = Connected
                        /\ pool_manager_after(v) = task'[t].result.manager
                        /\ task'[t].connects = 1
                     \/ /\ task'[t].pc = "done"
                        /\ task'[t].result.tag = "Err"
         /\ (Starts(t, "get_or_create", v) /\ get_state(v) = Connected)
               => /\ task'[t].pc = "goc_touch"
                  /\ get_state(v)' = Connected
         /\ (task[t].pc = "goc_touch" /\ task[t].wallet_checksum = v)
               => /\ get_state(v) = Connected
                  /\ get_state(v)' = Connected
                  /\ Moves(t) => /\ task'[t].pc = "done"
                                 /\ task'[t].result = Ok(get(connections, v).manager)
                                 /\ task'[t].connects = 0
      ]_vars

\* The first get_or_create of a cube has returned Ok after one connect and the
\* cube is Connected with the returned manager.
C3_Witness ==
    /\ task["t1"].op = "get_or_create" /\ task["t1"].pc = "done"
    /\ task["t1"].connects = 1 /\ task["t1"].result.tag = "Ok"
    /\ get_state(task["t1"].wallet_checksum) = Connected
    /\ get(connections, task["t1"].wallet_checksum).manager = task["t1"].result.manager
    /\ task["t2"].pc = "idle"

\* C4 - Check-then-act race. A get_or_create that has read its cube as absent,
\* Disconnected or Error does not look at the pool again: whatever another
\* caller has written for the cube since, it writes the Initializing
\* placeholder over it, performs its connect, and on success replaces the
\* entry by its own Connected one. So two callers that both read before either
\* wrote both connect, and the entry left is the last one written.
C4_LastWriteWins ==
    [][\A t \in Tasks :
         LET v == task[t].wallet_checksum IN
         /\ (task[t].pc = "idle" /\ task'[t].pc = "goc_mark")
               => get_state(task'[t].wallet_checksum).tag
                     \in {"NotInitialized", "Disconnected", "Error"}
         /\ (task[t].pc = "goc_mark" /\ Moves(t))
               => /\ task'[t].pc = "goc_initialize"
                  /\ get_state(v)' = Initializing
                  /\ get(connections', v).last_used = now
         /\ (task[t].pc = "goc_initialize" /\ Moves(t))
               => /\ task'[t].pc = "done"
                  /\ task'[t].connects = 1
                  /\ task'[t].result.tag = "Ok"
                        => get(connections', v) =
                              ConnectionEntry(task'[t].result.manager, Connected, v, now)
      ]_vars

\* Both callers have connected for the same cube, each has its own session,
\* and the pool holds one of the two.
C4_Witness ==
    /\ \A t \in Tasks :
          /\ task[t].op = "get_or_create" /\ task[t].pc = "done"
          /\ task[t].connects = 1 /\ task[t].result.tag = "Ok"
    /\ task["t1"].wallet_checksum = task["t2"].wallet_checksum
    /\ task["t1"].result.manager # task["t2"].result.manager
    /\ get_state(task["t1"].wallet_checksum) = Connected
    /\ get(connections, task["t1"].wallet_checksum).manager
          \in {task["t1"].result.manager, task["t2"].result.manager}

\* C5 - One entry per cube. In every reachable state no two entries of the pool
\* have the same key, and connection_count is the number of distinct keys.
C5_OneEntryPerVault ==
    /\ \A p \in connections, q \in connections : p.key = q.key => p = q
    /\ connection_count = Cardinality(keys(connections))

\* Both cubes have an entry while two calls are at work on the pool.
C5_Witness ==
    /\ keys(connections) = Vaults
    /\ task["t1"].pc = "goc_initialize"
    /\ task["t2"].pc = "dall_loop" /\ task["t2"].checksums # {}

\* C6 - Scenario C. A disconnect(v) that finds v Connected while the pool's
\* entry is the only holder of the manager and of its SDK handle takes the
\* entry out of the pool (get_state(v) is NotInitialized right after), owns the
\* session and performs the network disconnect on it before it returns.
C6_DisconnectSoleHolder ==
    [][\A t \in Tasks, v \in Vaults :
         /\ (/\ Starts(t, "disconnect", v)
             /\ get_state(v) = Connected
             /\ strong_count(get(connections, v).manager) = 1
             /\ get(connections, v).manager \notin uiSdk)
               => /\ ~contains_key(connections', v)
                  /\ get_state(v)' = NotInitialized
                  /\ task'[t].pc = "disc_net"
                  /\ task'[t].owned = get(connections, v).manager
         /\ (task[t].op = "disconnect" /\ task[t].pc = "disc_net" /\ Moves(t))
               => /\ task'[t].pc = "done"
                  /\ task'[t].net_disconnects = 1
                  /\ connections' = connections
      ]_vars

\* A disconnect has performed the network disconnect and returned Ok, and the
\* cube has no entry.
C6_Witness ==
    \E t \in Tasks :
        /\ task[t].op = "disconnect" /\ task[t].pc = "done"
        /\ task[t].net_disconnects = 1 /\ task[t].result = Ok(-1)
        /\ get_state(task[t].wallet_checksum) = NotInitialized

\* C7 - Disconnect with another owner. A disconnect(v) that finds v's entry
\* while something else holds a clone of the entry's manager leaves the cube
\* marked Disconnected in the pool, performs no network disconnect and
\* returns Ok.
C7_SharedMarkedDisconnected ==
    [][\A t \in Tasks, v \in Vaults :
         (/\ Starts(t, "disconnect", v)
          /\ contains_key(connections, v)
          /\ strong_count(get(connections, v).manager) > 1)
            => /\ get_state(v)' = Disconnected
               /\ task'[t].pc = "done"
               /\ task'[t].result = Ok(-1)
               /\ task'[t].net_disconnects = 0
      ]_vars

\* C8 - disconnect_all goes on after a failure. When disconnect_all returns,
\* every key its scan found has been handed to disconnect, and the result is
\* Err exactly if at least one of the network disconnects failed; the message
\* carries the number of failures.
C8_DisconnectAllAggregates ==
    \A t \in Tasks :
        task[t].op = "disconnect_all"
           => /\ task[t].errors = task[t].net_failures
              /\ task[t].checksums \subseteq task[t].scanned
              /\ task[t].pc = "done"
                    => /\ task[t].checksums = {}
                       /\ task[t].result.tag = "Err" <=> task[t].net_failures > 0
                       /\ task[t].result.tag = "Ok" <=> task[t].net_failures = 0
                       /\ task[t].net_failures > 0
                             => task[t].result.err.msg =
                                   "Failed to disconnect "
                                      \o ToString(task[t].net_failures) \o " connections"

\* disconnect_all has disconnected two sessions, one of the two disconnects
\* has failed, and it has returned Err.
C8_Witness ==
    \E t \in Tasks :
        /\ task[t].op = "disconnect_all" /\ task[t].pc = "done"
        /\ task[t].scanned = Vaults
        /\ task[t].net_disconnects = 2 /\ task[t].net_failures = 1
        /\ task[t].result.tag = "Err"

C10_FailureAlwaysMarksError ==
    [][\A t \in Tasks :
         (task[t].pc = "goc_initialize" /\ task'[t].pc = "done"
             /\ task'[t].result.tag = "Err")
            => /\ task'[t].result = Err(BreezError("ConnectionFailed", ConnectMessage))
               /\ get_state(task[t].wallet_checksum)' =
                     Error(to_string(task'[t].result.err))
      ]_vars

\* C10 (amended) - Connect failure. When the connect of get_or_create(v, m)
\* fails, the call returns that error in every interleaving. If v still has an
\* entry at that moment, whatever its state, the entry's state becomes
\* Error(message of the error) and nothing else of it changes; if the entry
\* has been removed while the connect was in flight, none is created and
\* get_state(v) stays NotInitialized.
C10_FailureMarksErrorIfPresent ==
    [][\A t \in Tasks :
         LET v == task[t].wallet_checksum IN
         (task[t].pc = "goc_initialize" /\ task'[t].pc = "done"
             /\ task'[t].result.tag = "Err")
            => /\ task'[t].result = Err(BreezError("ConnectionFailed", ConnectMessage))
               /\ task'[t].connects = 1
               /\ task'[t].marked = contains_key(connections, v)
               /\ IF contains_key(connections, v)
                  THEN get(connections', v) =
                          [get(connections, v) EXCEPT
                              !.state = Error("Failed to connect to Breez SDK: "
                                                 \o ConnectMessage)]
                  ELSE /\ connections' = connections
                       /\ get_state(v)' = NotInitialized
      ]_vars

\* A get_or_create has returned the connect error and its cube has no entry:
\* a disconnect took the placeholder out while the connect was in flight.
C10_Witness ==
    \E t \in Tasks :
        /\ task[t].op = "get_or_create" /\ task[t].pc = "done"
        /\ task[t].connects = 1
        /\ task[t].result = Err(BreezError("ConnectionFailed", ConnectMessage))
        /\ ~task[t].marked
        /\ get_state(task[t].wallet_checksum) = NotInitialized

\* C11 - Placeholder before the connect. A get_or_create(v, m) that does not
\* find v Connected or Initializing inserts the Initializing placeholder before
\* it starts its connect, and from then until its connect has returned every
\* other get_or_create(v, _) that reads the pool returns the "already in
\* progress" error without starting a connect.
C11_PlaceholderBlocksOthers ==
    [][\A t \in Tasks, v \in Vaults :
         /\ (task[t].pc = "goc_mark" /\ task[t].wallet_checksum = v /\ Moves(t))
               => /\ task'[t].pc = "goc_initialize"
                  /\ task'[t].connects = 0
                  /\ get_state(v)' = Initializing
         /\ \A u \in Tasks \ {t} :
               (/\ task[u].pc = "goc_initialize"
                /\ task[u].wallet_checksum = v
                /\ Starts(t, "get_or_create", v))
                  => /\ task'[t].pc = "done"
                     /\ task'[t].result = Err(AlreadyInitializing)
                     /\ task'[t].connects = 0
      ]_vars

\* The positions at which a task has asked for the lock and not yet dropped it.
SectionPcs ==
    {"goc_read", "goc_touch", "goc_mark", "goc_connected", "goc_error",
     "disc_remove", "dall_read", "cs_read", "intro_read"}

\* The positions at which a network call of the task is in flight.
NetworkPcs == {"goc_initialize", "disc_net"}

\* C12 - Lock discipline. In every reachable state a task whose network
\* connect or network disconnect is in flight neither holds nor waits for the
\* pool's lock, and a task that holds the lock is inside one of the sections
\* that read or mutate the map.
C12_LockDiscipline ==
    \A t \in LockTasks :
        /\ ltask[t].pc \in NetworkPcs
              => ~holds(rwlock, t) /\ ~waits(rwlock, t)
        /\ (holds(rwlock, t) \/ waits(rwlock, t)) => ltask[t].pc \in SectionPcs
        /\ rwlock.writer # "none" => rwlock.readers = {}

\* One task's connect is in flight while another task holds the write lock.
C12_Witness ==
    \E t \in LockTasks, u \in LockTasks :
        /\ ltask[t].pc = "goc_initialize"
        /\ rwlock.writer = u
        /\ ltask[u].pc = "goc_mark"

\* C13 - Deadlock freedom. No task waits for the lock while holding it (the
\* Connected arm of get_or_create has dropped its read guard when it asks for
\* the write lock), and every task that waits for the lock gets it.
C13_NoTaskBlockedForever ==
    /\ [](\A t \in LockTasks : ~(waits(rwlock, t) /\ holds(rwlock, t)))
    /\ \A t \in LockTasks : waits(rwlock, t) ~> holds(rwlock, t)

\* The Connected arm waits for the write lock while the other task reads.
C13_Witness ==
    \E t \in LockTasks, u \in LockTasks :
        /\ ltask[t].pc = "goc_touch"
        /\ waits(rwlock, t)
        /\ u \in rwlock.readers

\* C14 - Cube independence. A step of get_or_create(a, _) or disconnect(a),
\* the failure of a's connect included, leaves the entry of every other cube b
\* as it is (present or absent; state, manager, last_used), and a
\* get_or_create(b, _) fails with "already in progress" only if b's own entry
\* is Initializing.
C14_VaultIndependence ==
    [][\A t \in Tasks, a \in Vaults : \A b \in Vaults \ {a} :
         /\ (/\ Moves(t)
             /\ task'[t].op \in {"get_or_create", "disconnect"}
             /\ task'[t].wallet_checksum = a)
               => /\ contains_key(connections', b) <=> contains_key(connections, b)
                  /\ contains_key(connections, b)
                        => get(connections', b) = get(connections, b)
         /\ (Starts(t, "get_or_create", b) /\ get_state(b) # Initializing)
               => task'[t].result # Err(AlreadyInitializing)
      ]_vars

\* While the connect for one cube is in flight, a get_or_create for the other
\* cube has connected, and that cube's entry is Connected.
C14_Witness ==
    \E t \in Tasks, u \in Tasks :
        /\ task[t].pc = "goc_initialize"
        /\ task[u].op = "get_or_create" /\ task[u].pc = "done"
        /\ task[u].wallet_checksum # task[t].wallet_checksum
        /\ task[u].result.tag = "Ok" /\ task[u].connects = 1
        /\ get_state(task[u].wallet_checksum) = Connected
        /\ get_state(task[t].wallet_checksum) = Initializing

\* C15 - Introspection. get_state, is_connected, list_connections and
\* connection_count leave the pool as it is; get_state returns the state of
\* the entry, or NotInitialized without one; is_connected says whether that is
\* Connected; list_connections returns the (key, state) pairs and
\* connection_count their number, 0 for a pool without entries.
C15_IntrospectionReadOnly ==
    [][/\ \A t \in LockTasks :
            LET v == ltask'[t].wallet_checksum
                res == ltask'[t].value
                here == {p \in connections : p.key = v}
            IN  (ltask'[t].op \in Introspections /\ ltask'[t] # ltask[t])
                   => /\ connections' = connections
                      /\ ltask'[t].pc = "done" =>
                           /\ ltask'[t].op = "get_state"
                                 => res.state = IF here = {} THEN NotInitialized
                                                ELSE (CHOOSE p \in here : TRUE).entry.state
                           /\ ltask'[t].op = "is_connected"
                                 => res.flag = \E p \in here : p.entry.state = Connected
                           /\ ltask'[t].op = "list_connections"
                                 => res.list = {<<p.key, p.entry.state>> : p \in connections}
                           /\ ltask'[t].op = "connection_count"
                                 => res.count = Cardinality(connections)
       /\ connections = {} => connection_count = 0
       /\ \A v \in Vaults :
             ~contains_key(connections, v)
                => get_state(v) = NotInitialized /\ ~is_connected(v)
      ]_vars

\* get_state has returned Connected for a cube whose entry is Connected, and
\* is_connected has returned false for it at some other moment.
C15_Witness ==
    \E t \in LockTasks, u \in LockTasks :
        /\ ltask[t].op = "get_state" /\ ltask[t].pc = "done"
        /\ ltask[t].value.state = Connected
        /\ get_state(ltask[t].wallet_checksum) = Connected
        /\ ltask[u].op = "is_connected" /\ ltask[u].pc = "done"
        /\ ~ltask[u].value.flag

\* C16 - disconnect is idempotent. On a manager that has been disconnected
\* before, disconnect performs no network disconnect, returns Ok and leaves
\* the sdk field as it was (None); and after any disconnect of a manager its
\* sdk() returns NotInitialized.
C16_DisconnectIdempotent ==
    [][\A m \in Managers :
         /\ (managers[m].disconnects >= 1
               /\ managers'[m].disconnects = managers[m].disconnects + 1)
               => /\ managers'[m].pc = "idle"
                  /\ managers'[m].result = Ok(-1)
                  /\ managers'[m].net_disconnects = managers[m].net_disconnects
                  /\ managers'[m].sdk = managers[m].sdk
                  /\ ~managers[m].sdk
         /\ (managers[m].disconnects >= 1
               /\ managers'[m].sdk_result # managers[m].sdk_result)
               => managers'[m].sdk_result = Err(BreezError("NotInitialized", ""))
         /\ (managers[m].disconnects >= 1 /\ managers[m].sdk_result.tag = "Err")
               => to_string(managers[m].sdk_result.err) = "Breez SDK not initialized"
      ]_vars

\* A manager has been disconnected twice, the first call made the network
\* disconnect, the second returned Ok, and its sdk() has returned NotInitialized.
C16_Witness ==
    \E m \in Managers :
        /\ managers[m].disconnects = 2 /\ managers[m].pc = "idle"
        /\ managers[m].net_disconnects = 1
        /\ managers[m].result = Ok(-1)
        /\ managers[m].sdk_result = Err(BreezError("NotInitialized", ""))

\* C17 - payment precondition. Whenever no prepared quote is stored, in
\* ActivePanel and in ActiveSend, the handling of a send request (SendPayment,
\* ConfirmPayment, Send) starts no task, so no network send, leaves sending
\* false and sets an error message.
C17_SendNeedsPreparedQuote ==
    [][\A msg \in SendRequests :
         (SendPayment(msg) /\ ~panel.prepare_send_response.some)
            => /\ inflight' = inflight
               /\ ~panel'.sending
               /\ panel'.error # None
               /\ ~panel'.prepare_send_response.some
      ]_vars

\* ActivePanel, connected and with its balance fetched, refused a send request
\* for the missing quote: nothing is in flight and sending is false.
C17_Witness ==
    /\ panel.kind = "ActivePanel"
    /\ panel.error = "Please prepare payment first"
    /\ panel.breez_manager = "Sdk"
    /\ panel.balance
    /\ ~panel.prepare_send_response.some
    /\ ~panel.sending
    /\ inflight = <<>>

\* C18 - a stored quote is cleared when the destination or the amount input
\* is edited, and the quote a send request submits was prepared for the
\* destination (and, in ActivePanel, the amount) that the form holds.
C18_QuoteFollowsForm ==
    [][/\ ((\E v \in Destinations : DestinationEdited(v))
              \/ (\E v \in Amounts : AmountEdited(v)))
            => ~panel'.prepare_send_response.some
       /\ \A msg \in SendRequests :
            (SendPayment(msg) /\ Len(inflight') > Len(inflight))
               => LET sent == inflight'[Len(inflight')].quote
                  IN  /\ sent.destination = panel.destination
                      /\ panel.kind = "ActivePanel" => sent.amount = panel.amount
      ]_vars

\* The prepare, send and invoice requests among the tasks in flight.
requests(q) == SelectSeq(q, LAMBDA t : t.op \in {"prepare", "send", "invoice"})

C20_CreatePath ==
    [][/\ (CreateLightningWallet /\ panel.lightning_wallet_state.tag = "NotCreated")
            => /\ panel'.lightning_wallet_state.tag = "ShowingBackup"
               /\ generated' = generated + 1
               /\ panel'.lightning_wallet_state.mnemonic = ToString(generated')
               /\ panel'.lightning_wallet_state.mnemonic # disk.mnemonic
               /\ inflight' = inflight /\ disk' = disk
       /\ (ConfirmBackup /\ panel.lightning_wallet_state.tag = "ShowingBackup")
            => LET mnemonic == panel.lightning_wallet_state.mnemonic
               IN  IF panel.wallet /\ panel'.stored = "Ok"
                   THEN /\ disk' = StoredFile(mnemonic)
                        /\ panel'.lightning_wallet_state.tag = "Initializing"
                        /\ inflight' = Append(inflight, AsyncTask("init", NoQuote, mnemonic))
                   ELSE /\ panel'.lightning_wallet_state = panel.lightning_wallet_state
                        /\ panel'.error # None
                        /\ inflight' = inflight
      ]_vars

\* The second mnemonic generated was confirmed and stored: the panel is
\* Initializing and the one connect in flight uses the stored mnemonic.
C20_Witness ==
    /\ panel.lightning_wallet_state.tag = "Initializing"
    /\ panel.stored = "Ok"
    /\ disk = StoredFile(ToString(generated))
    /\ generated = MaxMnemonics
    /\ inflight = <<AsyncTask("init", NoQuote, ToString(generated))>>

\* C21 - completion of the connect. When the panel is Initializing and the
\* BreezInitialized message of a connect arrives, the panel becomes Ready on
\* Ok, and NotCreated with an error set on Err, whichever menu is current.
C21_ConnectCompletes ==
    [][\A i \in 1..MaxInFlight, ok \in BOOLEAN :
         (AppBreezInitialized(i, ok) /\ panel.lightning_wallet_state.tag = "Initializing")
            => IF ok THEN panel'.lightning_wallet_state.tag = "Ready"
               ELSE /\ panel'.lightning_wallet_state.tag = "NotCreated"
                    /\ panel'.error # None
      ]_vars

\* The phrase that a valid import stores: 24 words, single spaces.
ValidPhrase == as_str(Phrase(MnemonicWords, "art", FALSE))

\* C22 (as stated) - import validation. In ImportingWallet, a confirm-import
\* whose input, trimmed, has not exactly 24 words or is not a BIP39 mnemonic
\* leaves the state ImportingWallet with the same input and an error, leaves
\* the disk as it is and starts no connect; a valid 24-word phrase is stored
\* and the state becomes Initializing.
C22_ImportValidation ==
    [][ConfirmImport =>
         \A n \in 0..(MnemonicWords + 1), last \in {"abandon", "art"}, pad \in BOOLEAN :
           panel.lightning_wallet_state.mnemonic_input = Phrase(n, last, pad)
              => IF n = MnemonicWords /\ last = "art"
                 THEN /\ disk' = StoredFile(ValidPhrase)
                      /\ panel'.lightning_wallet_state.tag = "Initializing"
                 ELSE /\ panel'.lightning_wallet_state.tag = "ImportingWallet"
                      /\ panel'.lightning_wallet_state.mnemonic_input = Phrase(n, last, pad)
                      /\ panel'.lightning_wallet_state.error # None
                      /\ disk' = disk /\ inflight' = inflight
      ]_vars

\* Every phrase of up to 25 words, by its number of words, its last word and
\* whether whitespace surrounds it.
Phrases ==
    [n \in 0..(MnemonicWords + 1) |->
       [last \in {"abandon", "art"} |-> [pad \in BOOLEAN |-> Phrase(n, last, pad)]]]

\* A step of ConfirmImport. Its first two conjuncts follow from ConfirmImport
\* (it starts at most one task and ends in ImportingWallet or Initializing);
\* they spare evaluating the handler on the steps of the other handlers.
ImportStep ==
    /\ Len(inflight') >= Len(inflight)
    /\ panel'.lightning_wallet_state.tag \in {"ImportingWallet", "Initializing"}
    /\ ConfirmImport

\* C22 (amended) - import validation. An invalid input is treated as stated.
\* For a valid 24-word phrase, either the trimmed phrase is stored for the
\* vault, the state becomes Initializing and exactly one connect with that
\* phrase is started; or (no vault, the old directory cannot be removed, the
\* store fails) the state stays ImportingWallet with the same input, the
\* panel's error is set and no connect is started, and then the old wallet
\* file may be gone or replaced.
C22_ImportValidationOrFailure ==
    [][ImportStep =>
         \A n \in 0..(MnemonicWords + 1), last \in {"abandon", "art"}, pad \in BOOLEAN :
           panel.lightning_wallet_state.mnemonic_input = Phrases[n][last][pad]
              => IF n = MnemonicWords /\ last = "art"
                 THEN \/ /\ panel.wallet
                         /\ disk' = StoredFile(ValidPhrase)
                         /\ panel'.lightning_wallet_state.tag = "Initializing"
                         /\ inflight' = Append(inflight, AsyncTask("init", NoQuote, ValidPhrase))
                      \/ /\ panel'.lightning_wallet_state = panel.lightning_wallet_state
                         /\ panel'.error \in
                              {"No wallet available",
                               "Failed to delete old wallet: " \o ProviderMessage,
                               "Failed to store imported wallet: "
                                  \o to_string(BreezError("Config", ProviderMessage))}
                         /\ inflight' = inflight
                         /\ IF panel.wallet
                            THEN disk' \in {disk, NoFile, CorruptFile, StoredFile(ValidPhrase)}
                            ELSE disk' = disk
                 ELSE /\ panel'.lightning_wallet_state.tag = "ImportingWallet"
                      /\ panel'.lightning_wallet_state.mnemonic_input = Phrases[n][last][pad]
                      /\ panel'.lightning_wallet_state.error # None
                      /\ disk' = disk /\ inflight' = inflight
      ]_vars

\* A phrase typed with whitespace around it was imported: it is stored
\* trimmed, the panel is Initializing and the one connect in flight uses it.
C22_Witness ==
    /\ panel.lightning_wallet_state.tag = "Initializing"
    /\ panel.stored = "Ok"
    /\ generated = 0
    /\ disk = StoredFile(ValidPhrase)
    /\ inflight = <<AsyncTask("init", NoQuote, ValidPhrase)>>

\* C23 - corrupted wallet reset. Opening the Lightning menu for a vault whose
\* wallet file exists and cannot be loaded puts the panel in NotCreated with
\* an error; and the create message sent from there ("Reset & Create New")
\* removes the vault's lightning directory, and with it the wallet file, when
\* it moves to ShowingBackup.
C23_CorruptedWalletReset ==
    [][/\ (AppSetCurrentPanel("Activate") /\ ~app.breez_manager
             /\ should_initialize_sdk(panel) /\ is_wallet_corrupted(panel, disk))
            => /\ panel'.lightning_wallet_state.tag = "NotCreated"
               /\ panel'.error = get_init_params(panel, disk).msg
       /\ (CreateLightningWallet /\ panel.lightning_wallet_state.tag = "NotCreated"
             /\ is_wallet_corrupted(panel, disk))
            => /\ panel'.lightning_wallet_state.tag = "ShowingBackup"
               /\ ~lightning_wallet_exists(disk')
      ]_vars

\* C24 - cipher round trip. For every message (the empty one too), every
\* 32-byte key and every 12-byte nonce that encrypt_chacha20 draws, decrypting
\* what it returned, with the same key, gives the message back.
C24_CipherRoundTrip ==
    /\ cipher.decrypted = cipher.data
    /\ cipher.key # <<>> => /\ Len(cipher.key) = KEY_LEN
                            /\ Len(cipher.encrypted) >= NONCE_LEN

\* A message longer than the key and than the range of the u8 index went
\* through the cipher, which changed it, and came back.
C24_Witness ==
    /\ Len(cipher.data) > 256
    /\ cipher.key = [i \in 1..KEY_LEN |-> 42]
    /\ SubSeq(cipher.encrypted, NONCE_LEN + 1, Len(cipher.encrypted)) # cipher.data
    /\ cipher.decrypted = cipher.data

\* A step that writes or removes the file of a vault v, or changes what is
\* known of it, and so every store for v, leaves the file of every other
\* vault as it is; and the step after which v's file is known to hold a
\* mnemonic is a store for v that returned Ok.
StoreIsolation ==
    [][\A v \in Vaults :
         (storage'.files[v] # storage.files[v] \/ storage'.stored[v] # storage.stored[v])
            => /\ \A w \in Vaults \ {v} : /\ storage'.files[w] = storage.files[w]
                                           /\ storage'.stored[w] = storage.stored[w]
               /\ storage'.stored[v].some
                     => \E nonce \in StoreNonces :
                          StoreMnemonic(v, storage'.stored[v].mnemonic, nonce, "Ok")
      ]_vars

C26_LoadFailures ==
    \A v \in Vaults :
      LET f == storage.files[v]
          result == load_wallet_file(f, v, storage.env)
          bad == \/ ~f.exists
                 \/ f.data = <<>>
                 \/ f.data[1] # 1
                 \/ ~from_utf8(decrypt_chacha20(Tail(f.data),
                                                derive_encryption_key(v, storage.env)))
      IN  bad => /\ result.tag = "Err" /\ result.err.kind = "Config"
                 /\ result.mnemonic = <<>>
                 /\ storage.loaded.vault = v
                       => /\ storage.loaded.tag = "Err"
                          /\ storage.loaded.err.kind = "Config"
                          /\ storage.loaded.mnemonic = <<>>

\* Two of the failures at once: v1's file starts with the byte 2 and the load
\* of it said so; v2's file is written whole and, under the host name of now,
\* no longer decrypts to UTF-8.
C26_Witness ==
    /\ storage.files["v1"].exists /\ storage.files["v1"].data # <<>>
    /\ storage.files["v1"].data[1] = 2
    /\ storage.loaded.vault = "v1"
    /\ storage.loaded.err = BreezError("Config", "Unsupported wallet file version: 2")
    /\ storage.stored["v2"].some
    /\ load_wallet_file(storage.files["v2"], "v2", storage.env).err
          = BreezError("Config", "Failed to decode mnemonic: " \o Utf8Message)

\* C27 - persisted layout. The file that a store, which returned Ok, wrote
\* for the mnemonic p is the byte 1, then the 12 bytes of the nonce drawn,
\* then a ciphertext as long as p: 13 + len(p) bytes.
C27_PersistedLayout ==
    \A v \in Vaults :
      storage.stored[v].some
         => LET data == storage.files[v].data
                mnemonic == storage.stored[v].mnemonic
            IN  /\ storage.files[v].exists
                /\ Len(data) = 1 + NONCE_LEN + Len(mnemonic)
                /\ data[1] = 1
                /\ SubSeq(data, 2, 1 + NONCE_LEN) \in StoreNonces
                /\ Len(SubSeq(data, 2 + NONCE_LEN, Len(data))) = Len(mnemonic)

\* A file written whole for a mnemonic of 14 bytes: 27 bytes, the first is 1,
\* the next 12 are the nonce drawn, and the rest is not the mnemonic.
C27_Witness ==
    /\ storage.stored["v1"].some
    /\ Len(storage.stored["v1"].mnemonic) = NONCE_LEN + 2
    /\ Len(storage.files["v1"].data) = 1 + NONCE_LEN + NONCE_LEN + 2
    /\ storage.files["v1"].data[1] = 1
    /\ SubSeq(storage.files["v1"].data, 2, 1 + NONCE_LEN) = Pattern(NONCE_LEN, 21)
    /\ SubSeq(storage.files["v1"].data, 2 + NONCE_LEN, Len(storage.files["v1"].data))
          # storage.stored["v1"].mnemonic

\* C28 - API key gate. Whichever path initializes the session, when
\* BREEZ_API_KEY is not set or is empty, LiquidSdk::connect is not called and
\* the call returns a configuration error (or, for a phrase that does not
\* parse, the error of the phrase).
C28_ApiKeyGate ==
    (initcall.pc # "idle" /\ api_key(initcall.env_key) = None)
       => /\ initcall.connects = 0
          /\ initcall.pc = "done"
          /\ initcall.result.tag = "Err"
          /\ initcall.result.err.kind \in {"Config", "InvalidMnemonic"}

\* C29 - event delivery. A provider event of a handled kind, emitted after
\* the listener is registered, puts exactly one internal event, its
\* translation, into the channel, and an event of another kind puts none; and
\* the n-th internal event sent is eventually the n-th BreezEvent message
\* that App::update has received.
C29_EventDelivery ==
    /\ [][\A kind \in SdkEventKinds, destination \in {None, "lnbc1"} :
            on_event(SdkEvent(kind, destination))
               => IF kind \in {"PaymentSucceeded", "PaymentFailed", "PaymentPending", "Synced"}
                  THEN /\ Len(events'.channel) = Len(events.channel) + 1
                       /\ events'.channel[Len(events'.channel)].kind
                            = (IF kind = "Synced" THEN "SyncComplete" ELSE kind)
                  ELSE events'.channel = events.channel
       ]_vars
    /\ \A n \in 1..MaxEvents :
         (Len(events.sent) >= n)
            ~> (Len(events.received) >= n /\ events.received[n] = events.sent[n])

\* The three kinds that carry an action hint.
HintKinds == {"AmountOutOfLimits", "InvalidDestination", "NotInitialized"}

\* C30 - every error maps to a non-empty message; a hint exists exactly for
\* amount-out-of-limits, invalid-destination and not-initialized; the full
\* message is the message, a blank line and the hint for those three kinds,
\* and the message alone for every other kind.
C30_ErrorMessages ==
    report.done
       => /\ report.message # ""
          /\ Len(report.message) > 0
          /\ (report.hint # None) <=> (report.error.kind \in HintKinds)
          /\ report.full = IF report.error.kind \in HintKinds
                           THEN report.message \o "\n\n" \o report.hint
                           ELSE report.message

\* A not-initialized error has been mapped, and its hint follows its message.
C30_Witness ==
    /\ report.done
    /\ report.error.kind = "NotInitialized"
    /\ report.full = "Wallet not ready. Please wait for initialization to complete."
                       \o "\n\n" \o Bulb \o " Try restarting the application if this persists"

\* A step in which the caller's auto_create_lightning_wallet runs.
AutoCreates ==
    /\ task["t1"].pc = "idle"
    /\ task'["t1"].op = "auto_create_lightning_wallet"

\* C31 - auto_create_lightning_wallet on a vault whose file exists returns
\* Ok(false), generates nothing and leaves the file as it is; it returns
\* Ok(true) only when there was no file and the file now holds the mnemonic
\* it generated.
C31_NeverReplaced ==
    [][AutoCreates =>
         /\ lightning_wallet_exists(disk)
              => /\ task'["t1"].result = OkBool(FALSE)
                 /\ disk' = disk
                 /\ generated' = generated
         /\ task'["t1"].result = OkBool(TRUE)
              => /\ ~lightning_wallet_exists(disk)
                 /\ disk' = StoredFile(ToString(generated'))
                 /\ generated' = generated + 1
      ]_vars

\* Both cases have happened: a wallet was auto-created, and a later call found
\* it and returned Ok(false).
C31_Witness ==
    /\ task["t1"].op = "auto_create_lightning_wallet"
    /\ task["t1"].result = OkBool(FALSE)
    /\ disk = StoredFile("1")
    /\ generated = 1

\* C32 - get_or_create_breez_connection returns Ok(None) for a vault without
\* a wallet file and the load error for a file that cannot be loaded, and in
\* both cases it has returned with the pool as it was and no connect made.
C32_NoWalletNoConnection ==
    [][GetOrCreateBreezConnection("t1", "v1") =>
         /\ ~lightning_wallet_exists(disk)
              => /\ task'["t1"].pc = "done"
                 /\ task'["t1"].result = OkNone
                 /\ task'["t1"].connects = 0
                 /\ connections' = connections
         /\ (lightning_wallet_exists(disk) /\ disk.file # "ok")
              => /\ task'["t1"].pc = "done"
                 /\ task'["t1"].result = Err(StorageError)
                 /\ task'["t1"].connects = 0
                 /\ connections' = connections
      ]_vars

\* The helper returned Ok(None) while the pool held a connection of the vault
\* (its file was removed after the connect).
C32_Witness ==
    /\ task["t1"].op = "get_or_create_breez_connection"
    /\ task["t1"].result = OkNone
    /\ is_connected("v1")
    /\ disk = NoFile

\* C33 - a failed connect never downgrades a live connection: when the
\* entry of v is Connected with a real handle and a connect attempt for v
\* fails, the entry is still Connected afterwards.
C33_FailureKeepsConnected ==
    [][\A t \in Tasks :
         (/\ GocInitializeFailed(t)
          /\ contains_key(connections, task[t].wallet_checksum)
          /\ get(connections, task[t].wallet_checksum).state = Connected
          /\ get(connections, task[t].wallet_checksum).manager # new_placeholder)
            => get(connections', task[t].wallet_checksum).state = Connected
      ]_vars

\* C34 - cleanup_stale never removes (and so never disconnects) an entry that
\* is Connected or Initializing at the moment its disconnect removes it.
C34_CleanupSparesLive ==
    [][\A t \in Tasks :
         (task[t].op = "cleanup_stale" /\ CsLoop(t))
            => \A p \in connections \ connections' :
                  p.entry.state.tag \notin {"Connected", "Initializing"}
      ]_vars

\* disconnect(v) of task t has returned while the connect of task u for v was
\* in flight: t holds what disconnect(v) returned, u is inside
\* BreezWalletManager::initialize for v, and the pool has no entry for v (u
\* inserted its placeholder before, and only t can have removed it since).
DisconnectedInFlight(t, u, v) ==
    /\ t # u
    /\ task[t].pc = "done" /\ task[t].op = "disconnect" /\ task[t].wallet_checksum = v
    /\ task[u].pc = "goc_initialize" /\ task[u].wallet_checksum = v
    /\ ~contains_key(connections, v)

\* C35 - after disconnect(v) has returned, and without a get_or_create for v
\* started afterwards, the state of v does not become Initializing or
\* Connected: a connect that was in flight when disconnect ran does not put
\* an entry for v back when it completes.
C35_DisconnectIsFinal ==
    [][\A t \in Tasks, u \in Tasks, v \in Vaults :
         (DisconnectedInFlight(t, u, v) /\ task'[u].op = "get_or_create")
            => ~(/\ contains_key(connections', v)
                 /\ get(connections', v).state \in {Initializing, Connected})
      ]_vars

\* C36 - initialization always resolves: every get_or_create call that has
\* started returns, and every vault whose entry is Initializing is later
\* without an Initializing entry (it is Connected or Error, or removed).
C36_InitializationResolves ==
    /\ \A t \in Tasks :
         (task[t].op = "get_or_create" /\ task[t].pc # "done") ~> (task[t].pc = "done")
    /\ \A v \in Vaults :
         (get_state(v) = Initializing) ~> (get_state(v) # Initializing)

\* A connect that failed has returned, and the placeholder it had inserted is
\* now the Error entry.
C36_Witness ==
    \E t \in Tasks :
       /\ task[t].pc = "done" /\ task[t].op = "get_or_create"
       /\ task[t].connects = 1 /\ task[t].marked
       /\ task[t].result.tag = "Err"
       /\ get_state(task[t].wallet_checksum).tag = "Error"

\* C37 - an entry that is Connected holds a real session, never the
\* placeholder, and every get_or_create that returned Ok returned a real
\* session.
C37_ConnectedIsReal ==
    /\ \A p \in connections :
         p.entry.state = Connected
            => (p.entry.manager # new_placeholder /\ p.entry.manager \in Sessions)
    /\ \A t \in Tasks :
         (task[t].op = "get_or_create" /\ task[t].pc = "done" /\ task[t].result.tag = "Ok")
            => (task[t].result.manager # new_placeholder
                /\ task[t].result.manager \in Sessions)

\* One call connected and returned its session; the other found the Connected
\* entry and returned the same session without connecting.
C37_Witness ==
    /\ task["t1"].pc = "done" /\ task["t1"].result.tag = "Ok" /\ task["t1"].connects = 1
    /\ task["t2"].pc = "done" /\ task["t2"].result.tag = "Ok" /\ task["t2"].connects = 0
    /\ task["t2"].op = "get_or_create"
    /\ task["t2"].result.manager = task["t1"].result.manager
    /\ \E p \in connections :
          p.entry.state = Connected /\ p.entry.manager = task["t1"].result.manager

\* C38 - a prepared quote is submitted at most once: a send request that
\* ActivePanel handles while sending is true and a send is in flight starts no
\* further send.
C38_SingleSubmission ==
    [][\A msg \in SendRequests :
         (/\ panel.kind = "ActivePanel"
          /\ panel.sending
          /\ \E i \in 1..Len(inflight) : inflight[i].op = "send"
          /\ SendPayment(msg))
            => Len(requests(inflight')) = Len(requests(inflight))
      ]_vars

\* The i-th task in flight is a prepare request that is no longer the most
\* recent one: a later prepare request, for another destination or amount, is
\* in flight, or the panel is not preparing any more (the request was
\* cancelled, or a later one was answered).
Superseded(i) ==
    /\ i \in 1..Len(inflight) /\ inflight[i].op = "prepare"
    /\ \/ \E j \in (i + 1)..Len(inflight) :
             inflight[j].op = "prepare" /\ inflight[j].quote # inflight[i].quote
       \/ ~panel.preparing

\* C39 - the quote stored in ActivePanel belongs to the most recent prepare
\* request: the PaymentPrepared response of a request that is no longer the
\* most recent one is not stored.
C39_LateResponseDropped ==
    [][\A i \in 1..MaxInFlight :
         (panel.kind = "ActivePanel" /\ Superseded(i) /\ delivered /\ PaymentPrepared(i))
            => panel'.prepare_send_response = panel.prepare_send_response
      ]_vars

\* C40 - the setup state becomes Ready only from Initializing and only for a
\* vault that has a stored Lightning mnemonic.
C40_ReadyOnlyFromInitializing ==
    [][(/\ panel.kind = "ActivePanel"
        /\ panel.lightning_wallet_state.tag # "Ready"
        /\ panel'.lightning_wallet_state.tag = "Ready")
          => /\ panel.lightning_wallet_state.tag = "Initializing"
             /\ lightning_wallet_exists(disk)
      ]_vars
====
